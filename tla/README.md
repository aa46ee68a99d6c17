# Agent Token Optimizer in TLA+

Agent Token Optimizer is a local tool that hands a coding agent (Codex or
Claude Code) a small, ranked selection of the files of a workspace instead of
letting it scan everything.  It runs as a hook on every submitted prompt, as a
command line, and as an MCP server; all three share one cache file, and an
installer edits the configuration files of the hosts.

These modules model the parts of it where something can go wrong between two
steps, TLC checks them on small instances, and TLAPS proves the most important
results for every instance.  Paths below are relative to the repository.

## 1. The system

### Components

| Component | Source | State it keeps | Operations |
|---|---|---|---|
| Local cache | `packages/core/src/store/sqlite-store.ts` | one database file; per open store a copy of it in memory | initialize, get, list, set, delete, clear, close, repair, health |
| User-prompt hook | `packages/cli/src/user-prompt-hook.ts`, `hookCommand` of `packages/cli/src/index.ts` | the stage of a run, a timer's flag, four cache records | one run per prompt |
| Host adapters | `packages/host-adapters/src` | the configuration files of two hosts, their backups | install, uninstall, inspect, roll back |
| Context packs and pages | `packages/core/src/context-pack` | none of its own: ranking, pack, evidence, cursor are values | build a pack, cut a page |
| MCP tools | `packages/mcp-server/src` | rankings of the last 100 packs, counters | analyze_task, build_context_pack, expand_context, estimate_tokens, summarize_targets, record_run, health |
| CLI commands | `packages/cli/src/index.ts` | none | init, install, uninstall, doctor, hook, optimize, cache |
| Workspace discovery | `packages/core/src/workspace` | the index under construction, shared limits, a cancellation flag | discoverWorkspace |
| Workspace analysis | `packages/core/src/workspace-analysis` | the analysis of the previous run | analyzeWorkspace |
| Ranking, task analysis | `packages/core/src/ranking`, `.../task-analysis` | none | rankContext, assessTask |
| Token ledger | `packages/core/src/token` | the saved ledger of a run | mergeTokenLedger, summarizeTokenLedger |
| Summaries, redaction, path policy, limits, configuration, contracts, errors | `packages/core/src/...` | none | pure functions and schemas |
| Observability, doctor | `packages/core/src/observability`, `.../diagnostics` | four counters | log, count, inspect |
| Live benchmarks and their report | `packages/benchmarks/src/live.ts`, `packages/report-ui/src/live.ts` | the results of a run, a workspace per case, a child process | run the cases, validate, decide on a release |
| Offline benchmarks, rendering, scripts | `packages/benchmarks`, `packages/report-ui`, `scripts` | result files | one-shot tooling |

### How they interact

* A prompt starts a hook **process**.  It opens the cache, discovers and
  analyzes the workspace with the previous index and analysis as a help, ranks,
  builds a pack, saves four records, prints one JSON object and ends.
* The MCP server is one process with **concurrent tool calls**; each call opens
  a store of its own, several times, on the same file.
* The CLI is a process per command.  `install` and `uninstall` go through the
  host adapters; `cache` and `optimize` use the cache.
* **Shared state** is the cache file, the configuration files (which the hosts
  and the user edit, too) and, inside the server, the map of rankings.  There is
  no lock anywhere.
* What one session saves **another one goes on from**: the index, the analysis of
  each file, rankings by a key made of the files, the task and the options, and
  summaries by task and path.  The hook saves a sanitized analysis there.
* A **host reports** its usage with `record_run`, once per call as it sees it; the
  server merges reports of one run into one ledger.
* The **live benchmark** starts hosts and validators as child processes, on copies of
  a fixture of which one has the hook installed, and reads the cache the hook wrote.

### What is hard in it

* Every store works on a full copy and every change rewrites the whole file:
  overlapping sessions overwrite each other, a reader writes, a failed write
  leaves memory ahead of the file, a crash can fall between any two steps.
* The name of the temporary file is made of the process id and a millisecond.
* A run of the hook saves four records in four rewrites, under a timer that only
  sets a flag.
* An installation changes several files, each in several steps that may fail,
  and undoes the ones before a failure; users edit the files.
* A cursor is an offset into a list that is kept elsewhere, in memory or in the
  cache, and rankings are reused between builds.
* A tool call that has timed out goes on in the background.
* Discovery runs on a few workers that share limits and a flag, over a workspace
  that is edited meanwhile, and reuses what earlier sessions have saved; a file is
  listed, measured, hashed and analyzed at four different moments, and summarized at
  a fifth.
* A report of usage is retried by a host whose first call has timed out but goes on;
  it is saved as a metric first and as a ledger afterwards, and each may fail.
* A child process may outlive its time limit, ignore its one signal, or leave a
  process behind that holds its output open or goes on editing.

### What makes each part correct

* Cache: the database path always names a whole database; only whole tables that
  some session worked with are ever saved; what was acknowledged is saved, if
  nobody else works on the file; every call ends.
* Hook: a partial index is never saved; a record is never there without the ones
  it refers to; injected context has been recorded; every run answers.
* Host adapters: the user's own hooks survive every step; whatever the user made
  of a file is there or in a backup; a failure leaves the files as found; success
  leaves the hook asked for.
* Packs: selection, fallback and pages together give every candidate once; a
  client never holds a pack whose evidence a restart could take away.
* Discovery and analysis: a warm index is what a cold discovery finds, or says that
  it is incomplete; an analysis belongs to the content that its hash names.
* Ranking and packs over a cache: the assessment, the ranking and the summaries of a
  session are those of a session without a cache; files that a task names are served
  first; a pack accounts for every file; skipping a prompt was right.
* Ledger: no entry without its metric; no ledger of two tasks; what was acknowledged
  stays, and a ledger is what one merge of its reports in order gives.
* Live benchmarks: a case counts as a success only if it truly was one, a release
  passes only on such cases and on lower costs, every run ends.

`PROJECT.json` lists every hazard at the line where it bites, with the
properties that cover it.

## 2. The modules

### `SqliteStore`, `StoreProperties`, `SnapshotCache`, `MCStore`, `SqliteStoreProofs`

`SqliteStore` models the cache below the level of files.  A *session* is a
`SqliteStore` object, `mem` its database in memory.  The directory is `dbFile`
(what the database path names) and `tmpFile` (what each temporary name names);
both name *inodes*, and `content` is what an inode holds, so that a rename can
move a file another session is still writing to (`fd`).  `#persist` is cut at its
awaits into `BeginPersist` (export, choose the name), `OpenTemp` (`writeFile`
truncates or creates), `WriteChunk` and `WriteTemp` (some, all of the bytes),
`RenameTemp` and `ChmodDatabase`.  `Initialize`, `Set`, `Delete`, `Clear`,
`Close`, `Repair` are the methods; `IOError` fails whatever operation is under
way, `Crash` ends a process with all its sessions.  A temporary file left behind
by a crash stays.  `mkdir` has no effect that matters.  The phase `ahead` is a
session whose last persist was rejected with its change already in memory.

`SnapshotCache` is the abstract specification: `saved`, one table, and `view`, a
copy per session; a session opens on a copy, changes it, and publishes it whole.
It says nothing about whose copy wins, because the code does not.
`StoreProperties` states the properties, the refinement mapping (`saved` is what
the database path names, `view` is the memory of an open session) and the uses
under which they hold:

* `ApartSpec`: no two persists under way have the same temporary name;
* `OneSessionPerProcess`, under which that is always so (the CLI and the hook);
* `SerialSpec`: sessions do not overlap at all;
* `ReaderSpec`: some sessions only read, and nobody repairs.  `ReadersSaveNothing`
  does not hold even then (see the findings).

### `HookRun`, `HookRunProofs`

One run per prompt, cut at the awaits of `runUserPromptHook` into stages.  The
cache is used at the level of `SnapshotCache`: `saved` is the table, `view` a
run's copy, and `Save` publishes the copy, with the two ways a set can reject
(nothing saved, or saved and then a failed chmod).  `Expire` is the timer, which
sets the flag that `GotoUnlessAborted` looks at where the code calls
`throwIfAborted`; a discovery that sees the flag returns a partial index.  `Kill`
is the host giving up, at any stage, and `RepairCache` a user's command.  Whether
the cache is enabled and whether the assessment says "skip" are inputs.
`recorded` remembers the runs whose injection has been on record, because a later
run may overwrite the record.

### `HostConfig`, `MCHost`, `HostConfigProofs`

The content of a configuration file is reduced to what the merge looks at: the
managed hook, the user's hooks in groups of their own (`own`) and in the group of
the managed hook (`shared`), and the layout; or the file is absent, blank or
invalid.  A command plans host by host (`Plan` reads), then for each host skips,
backs up (`Backup`), replaces (`Replace`) and, on a failure, rolls back newest
first (`Rollback`), each of them failing where `Failures` says so.  `AddManaged`
and `RemoveManaged` are the merges of `file-ops.ts`; the latter hands back a text without
the managed hook, also a blank one.  `UserWrites` is the user or
the host; `written` remembers what they last made of a file.

### `ContextPaging`, `MCPaging`, `ContextPagingProofs`

The builds of one task in one workspace, which share one ranking cache key.  A
candidate is its rank.  `LoadCachedRanking` takes the ranking of the cache or a
new one; `BuildContextPack` selects within the content budget, in order
(`WithinContentBudget`), shows the first of the others and reduces the pack to
the response budget (`Packs`: first the fallback candidates go, from the end, then
the selected ones), makes the evidence and remembers it (`Remembered`, first in,
first out); `OpenStore`, `SaveEvidence` and `SaveCachedRanking` are the session
that persists, and `Answer` gives the pack to a client that has not been told of
a timeout (`Expire`) before.  `ExpandContext` cuts a page from the evidence, in
memory or in the cache.  `Restart` is a new server; `OtherSession` stands for
every other session on the cache, which saves the copy it has read before, or
nothing at all.  How many tokens a pack takes is not modelled: every reduction
that the loop could make is allowed.

### `Indexing`, `MCIndexing`, `IndexingProofs`

Sessions, one after the other, over a workspace that the user edits at any moment
(`Edit`; every edit changes the modification time).  `ReadDirectory` is a step of
the walk, which schedules files up to the limit; the workers take tasks (`TakeTask`)
and an inspection is cut at its awaits: `Resolve` for a link, `Stat` with everything
that follows it up to the next await, `Sample` (the binary check and the reservation
of bytes) and `Read` (the hash).  Since workers have no identity, `inspected` is the
set of inspections under way, at most `Concurrency` of them.  `Missing` is a file
that is gone since it was listed, which rejects the discovery.  `ReuseOrSkip` and
`AnalyzeFile` go through the index as `analyzeWorkspace` does, and `SaveIndex` and
`SaveAnalysis` are two of the sets of the caller.  `Abort` sets the signal; the hook
looks at it between the stages and saves nothing (`HookGivesUp`), the tools go on
with what they have.  `HookRun` has the stages around a session in detail, with
discovery as one step; here the sessions do not overlap, and the cache is the pair
that was saved last.  A hash is the content that it is of.  `touched` and `disturbed`
remember which files were edited during the session, or during any session.

### `RunLedger`, `MCRunLedger`, `RunLedgerProofs`

Calls of `record_run`, and sessions of other tools (`report` is `None`), on a cache at
the level of `SnapshotCache`.  A call is cut at its awaits: `Load` takes the copy,
`Initialize`, `SetMetric` and `SetLedger` each publish it whole, and each save may be
rejected before or after the file was replaced (`Save`).  `Merged` is what
`mergeTokenLedger` makes of a ledger and new entries, said once for all entries instead
of one after the other; `OtherTask` and `TooMany` are what it throws for and what the
schema refuses.  `Timeout` answers a call that goes on, `Crash` ends all calls.  An
agent's entry has the operationId of its call, and a retry is a new call with the same
report.  `replayed` is the ledger that results when all saved reports are put one after
the other into one ledger (`Replay`, the loop of the code); `disturbed` are the calls
that another session was open with.

### `Ranking`, `OptimizeRun`, `MCOptimize`, `OptimizeRunProofs`

`Ranking` has the pure part: what a file's analysis is (`Analyzed`, and the relations
between files that follow from it), what a task is taken to ask for (`Hints`,
`Assessment`, with and without a workspace), the signals, the weighted score in
thousandths, and the selection (`RankContext`: anchors first, then one file after the
other by score, cost and a penalty per directory).  What the regular expressions find
in a text is given: a content names what it declares, says and imports.  The sorts and
filters of the code are recursive functions here (`InOrder`, `Kept`, `WithinBudget`,
`Selected`), over orders that are sets of pairs (`ByScore`, `ByValue`, `NamedFirst`), so
that they can be proved about.

`OptimizeRun` runs sessions of the hook, of `optimize --cache`, of `build_context_pack`
and of `analyze_task` one after the other over one cache, cut where they read the disk
or the cache: `Discover`, `Analyze` (reuse by hash), `Assess`, `Rank` (a cached ranking
under `RankingKey`, or `Fresh`), `Summarize` file by file, `Finish` (what is to be
saved, in order) and `Save`.  A session may end anywhere (`Stop`), and the user edits
in between (`UserEdits`).  `disturbed` are the files edited between two reads of a
session; `sanitized` are the files and contents of which the hook has saved its reduced
analysis.  `PackIsCurrent` says what a warm session may make of all this: its pack is
one that a cold session would make of an analysis of the indexed contents (`AnalysisFrom`),
reduced at most for contents in `sanitized`, and made of another content at most for
files in `disturbed`.

### `LiveBenchmark`, `MCLiveBenchmark`, `LiveBenchmarkProofs`

`runLiveBenchmarks`, case by case: copy, install, host, comparison, validator, ledgers,
warm cache, report.  A process is `child` (running, stubborn or exited, with its code
and whether its timer has fired) and `behind` (what it leaves: nothing, something that
holds its output open, something that goes on editing).  `Exit`, `Timeout`, `Terminate`,
`LetGo` and `HostClosed` are the executor and its child in any order.  `AsExpected` is
the verdict on the files, `Success` what the case counts as.  `fact` remembers what was
truly so, and a successful case keeps it as `truth`.  `pair` is the scenario and
the repetition at hand, and `Advance` goes on to the next.  The second half is the report:
medians, costs per success, regressions and the release gates (`ReleasePassed`).

## 3. The runs

| Run | Checks | Shows |
|---|---|---|
| `store_apart` | `RewrittenAtomically`, `ImplementsSnapshotCache`, `CallsEnd` | two processes, one session each, with I/O errors and crashes at every step: the file is never torn, the store implements whole-table snapshots, calls end |
| `store_serial` | `TypeOK`, `AcknowledgedIsSaved` | two sessions of one process, one at a time, two keys of two kinds: what was acknowledged is what the next session loads |
| `store_torn` | `RewrittenAtomically` (violated) | two sessions of one process and one millisecond: the database path comes to name a partly written file |
| `hook_overlap` | `TypeOK`, `OnlyWholeIndexes`, `RecordsComeInOrder`, `ContextIsRecorded`, `RunsAnswer` | two runs that overlap, each with or without cache, skipping or not, a timer, failures, kills, repairs |
| `host_overlap` | `TypeOK`, `Recoverable`, `KeepsOwnHooks` | an install and an uninstall that overlap over two hosts; every operation may fail, kills anywhere |
| `host_serial` | `DoneAsAsked`, `FailureRestores` | the same two commands one after the other, with files that cannot be parsed and hooks of another checkout |
| `host_shared` | `KeepsEveryHook` (violated) | uninstalling removes a hook of the user's in the managed hook's group |
| `paging_one_budget` | `TypeOK`, `EachCandidateOnce`, `EvidenceBeforePack` | two builds under one content budget, with every fallback and page limit, timeouts, restarts, other sessions |
| `indexing` | `TypeOK`, `WithinLimits`, `WarmIsCold`, `AnalysisOfHash`, `SessionsEnd` | two sessions of the hook or a tool, two workers, two files and a link, an edit or a deletion at any moment, each limit reached in some session, the signal, failures, kills |
| `run_ledger` | `TypeOK`, `EveryEntryHasItsMetric`, `OneTaskPerRun`, `AcknowledgedIsRecorded`, `LedgerIsReplay`, `CallsEnd` | three calls about one run, of `record_run` or another tool, that overlap, with a failed save, a timeout or a crash, and with retries |
| `optimize` | `TypeOK`, `AssessmentIsCold`, `PackIsCurrent`, `SummaryOfItsHash`, `NamedFilesAreServed`, `PackIsWhole`, `SkipIsRight` | three sessions of four callers over one cache and five files, two edits or deletions at any moment: what a session takes from the cache gives what a session without one would find |
| `live` | `TypeOK`, `SuccessIsEarned`, `ReleaseIsEarned`, `RunEnds` | two scenarios, both modes of each in either order, hosts and validators that fail, hang, ignore the signal or leave a process behind |

Deadlock is not checked in any of them: sessions may all be closed, prompts, calls and
commands run out, a benchmark ends, and the rest of the system waits for its user.

### Bounds, and why they are enough

* *Store*: two sessions are what every interference here takes (one writes, one
  renames); three inodes are the database and a temporary file for each.
  `store_apart` has one key and one value, since tearing and refinement do not
  depend on what is in a table; `store_serial` has two keys of
  two kinds, for `clear` of a kind.  One millisecond makes
  all names of a process equal, the worst case; `store_serial` has two.
* *Hook*: two runs.  The properties relate the records of one run to each other and
  to what one other run saves over them.
* *Hosts*: two hosts, so that a plan has a change before and a change after a
  failure, and two commands.  One user hook is enough to be lost.
* *Paging*: three candidates, of one or two tokens, any number of them selected;
  a budget of two makes the greedy selection pass over a candidate and take a
  later one.  `MaxRankings` is one (100 in the code), so that the second build
  pushes the evidence of the first out of memory.
* *Indexing*: two sessions, since all that one passes on to another is the saved
  pair, and one edit: what an edit can spoil is a pair, and the session that follows
  either notices or not.  Two workers and two files of two bytes against a limit of
  three make the reservations compete.  The four calls of `MCOptions` differ in
  the ignore rule, the three limits, the caller and where the link leads (a file,
  outside, a directory).
* *Ledger*: three calls are two that overlap or retry and one that follows.  One run,
  because runs share nothing but the table, and two tasks, so that a run can be claimed
  by both.  The three reports cover a known and an unknown usage, an operation that is
  reported twice, and a call without a task.  `MaxEntries` is three (10000 in the code),
  which the third call exceeds.  `MaxFaults` is one; that no number of faults matters
  is proved.
* *Optimize*: three sessions are one that saves, one that takes and saves again, and
  one that takes that.  The five files are a module, its test, one that imports it, a
  document and a generated file, so that every signal counts for some file; with a
  limit of two files and a budget of 2500 tokens, both leave something out.
* *Live*: one file, one repetition and two scenarios, one that expects the file to be
  edited and is validated by a command, one that expects no change and that the hook
  should skip.  A cheap, a dear and an impossible usage; a response of the hook that is
  empty, in the budget, or over it.  A pair is over before the next begins, so that two
  pairs are what medians and costs need.

### The findings

Two runs violate what the documentation says of the program:

1. Cache files are "rewritten atomically" (`ARCHITECTURE.md`), unless two sessions
   of the MCP server persist in the same millisecond (`store_torn`).
2. "Uninstall preserves hooks not managed by this project" (`SECURITY.md`), unless
   they sit in the group of the managed hook (`host_shared`).

More are visible in the models and have no run of their own.  Where a
property is named, checking it finds the violation:

* A tool that is registered as read-only (`server.ts:108`) rewrites the cache when it
  opens it: `ReadersSaveNothing` under `ReaderSpec`.
* `expand_context` misses a candidate when the ranking was cached under a larger content
  budget: the cursor counts along the order in which candidates were put off, the
  pages along the ranks (`tools.ts:988`).  `EachCandidateOnce` with two content budgets.
* "reuses unchanged analyses" (`index.test.ts:70`), but a file that was edited between
  its hash and its analysis, and put back later, keeps the analysis of the other
  content: `ReusesUnchanged` with two edits.
* Where a scenario expects no file to change, the outcome of its validation command is
  overwritten (`live.ts:608`): `FailedValidationFails` with `OnlyReadingDef`.
* A link that is set to another file of the same size and time of modification keeps the
  hash of the first (`discover.ts:458` compares path, size and time only):
  `AnalysisOfHash` with a link that leads to two files.
* A prompt that has the word "redacted" matches every name that the hook has replaced,
  so that its assessment depends on whether the hook has run: `AssessmentIsCold` leaves
  such prompts out (`NamesSecrets`), and those that have a name it replaces.
* A file that could not be read once when it was analyzed keeps its empty analysis until
  its content changes, which is why `AnalysisOfHash` leaves such files out.
* `FailureRestores` fails when chmod may fail after the rename of a configuration file:
  the change is not yet among those to roll back (`host_serial` leaves it out).
* An edit of a configuration file between its backup and its replacement is lost:
  `Recoverable` is about files that nobody edits while a command runs.
* After a hook run, other sessions rank without the terms of the contents, because the
  hook has saved the analysis without them, and a ranking that is then cached stays in
  use: `PackIsCurrent` allows for it, file by file, where the hook has saved an analysis
  of that very content (`sanitized`).
* A file that is edited between discovery and analysis is analyzed with the new content
  under the old hash, and stays so for later sessions if the edit is undone:
  `PackIsCurrent` allows for it where a file was edited under a session (`disturbed`).
* The metric of a call of `record_run` stays saved when the merge of its ledger throws;
  a retry after a timeout counts the agent twice, as its operationId is a new one; and
  sessions that overlap lose each other's entries (`disturbed`).
* One case of a live benchmark that rejects takes the results of all earlier cases with
  it (`Fails`).
* Nothing sees to it that scenarios have ids of their own (`runner.ts:273`).  The cases
  of two with one id would share a directory, where the copy leaves files as they are
  (`live.ts:397`), and the report would compare only the last of their cases
  (`countTokenRegressions`): `IdsAssumption`, which the repository's scenarios satisfy.
* A prompt whose only hints are names of tests is skipped with the workspace at hand and
  "light" without it; the hook asks without it first, so `SkipIsRight` is not concerned.

### Fairness

* `FairApartSpec` has weak fairness of each step of a persist that has begun, and of
  the initialization inside a repair: Node completes or rejects every file operation
  it was given.  Nothing forces a session to call a method.  `WriteChunk`, errors
  and crashes are never forced.
* `HookRun!FairSpec` has weak fairness of the steps of a run that was started: a
  process runs until it ends or is killed.  Starting, the timer and kills are never
  forced.  `RunsAnswer` therefore does not need the timer to fire.
* `Indexing!Spec` has weak fairness of `SessionStep`, what a session does by itself: a
  started session runs on, because Node completes or rejects its reads.  Starting,
  edits, the signal and failures are never forced.
* `RunLedger!Spec` has weak fairness of the steps of calls together: as long as a call
  has a file operation to wait for, Node settles one.  Calls, timeouts and faults are
  never forced.
* `LiveBenchmark!Spec` has weak fairness of what the runner does by itself, of its timer
  and of the end of a process that heeds the signal.  Nothing else about a host is
  certain, so `RunEnds` excepts a process that ignores the signal or holds the output
  (`Hung`), for which the code has no second measure.

The other runs check safety only.

## 4. What is proved

For every value of the constants that satisfies the stated assumptions:

| Theorem | States |
|---|---|
| `SqliteStoreProofs!TypeCorrect` | `Spec => []TypeOK` |
| `SqliteStoreProofs!ApartInv` | `ApartSpec => []StoreInv` |
| `SqliteStoreProofs!ApartByProcess` | with `OneSessionPerProcess`, `Spec => ApartSpec` |
| `SqliteStoreProofs!AtomicRewrite` | `ApartSpec => RewrittenAtomically` |
| `SqliteStoreProofs!StoreRefinesCache` | `ApartSpec => ImplementsSnapshotCache` |
| `SqliteStoreProofs!AcknowledgedDurable` | `SerialSpec => []AcknowledgedIsSaved` |
| `HostConfigProofs!HostTypeCorrect` | `Spec => []TypeOK` |
| `HostConfigProofs!NothingLost` | `QuietSpec => []Recoverable` |
| `HostConfigProofs!OwnHooksKept` | `QuietSpec => KeepsOwnHooks` |
| `HostConfigProofs!SuccessIsComplete` | `SerialSpec => DoneAsAsked` |
| `HostConfigProofs!FailureUndone` | unless a chmod or an undo may fail, `SerialSpec => FailureRestores` |
| `HostConfigProofs!EveryHookKept` | if users put no hook of their own into the managed group, `QuietSpec => KeepsEveryHook` |
| `HostConfigProofs!AskedAgain` | what an install or uninstall leaves is what the next of its kind finds unchanged |
| `HookRunProofs!HookTypeCorrect` | `Spec => []TypeOK` |
| `HookRunProofs!IndexesWhole` | `Spec => []OnlyWholeIndexes` |
| `HookRunProofs!RecordsInOrder` | `Spec => []RecordsComeInOrder` |
| `HookRunProofs!InjectionsRecorded` | `Spec => []ContextIsRecorded` |
| `RunLedgerProofs!LedgerTypeCorrect` | `Spec => []TypeOK` |
| `RunLedgerProofs!MetricsComeFirst` | `Spec => []EveryEntryHasItsMetric` |
| `RunLedgerProofs!TasksStayApart` | `Spec => []OneTaskPerRun` |
| `RunLedgerProofs!AcknowledgedCallsStay` | `Spec => []AcknowledgedIsRecorded` |
| `RunLedgerProofs!LedgersAreReplays` | `Spec => []LedgerIsReplay` |
| `RunLedgerProofs!ReportsAreWhole` | `Spec => []WholeReports` |
| `RunLedgerProofs!MergeIsLoop` | `Replay(e, new) = Merged(e, new)` |
| `RunLedgerProofs!MergesCompose` | `Merged(Merged(e, a), b) = Merged(e, a \o b)` |
| `RunLedgerProofs!MergesRepeat` | merging the same entries again changes nothing |
| `IndexingProofs!Types` | `Spec => []TypeOK` |
| `IndexingProofs!Limits` | `Spec => []WithinLimits` |
| `IndexingProofs!Warm` | with `LinksStay`, `Spec => []WarmIsCold` |
| `IndexingProofs!Analysis` | with `LinksStay`, `Spec => []AnalysisOfHash` |
| `OptimizeRunProofs!Types` | `Spec => []TypeOK` |
| `OptimizeRunProofs!Assessments` | `Spec => []AssessmentIsCold` |
| `OptimizeRunProofs!CurrentPacks` | `Spec => []PackIsCurrent` |
| `OptimizeRunProofs!SummariesOfHash` | `Spec => []SummaryOfItsHash` |
| `OptimizeRunProofs!NamedServed` | `Spec => []NamedFilesAreServed` |
| `OptimizeRunProofs!WholePacks` | `Spec => []PackIsWhole` |
| `OptimizeRunProofs!RightSkips` | `Spec => []SkipIsRight` |
| `OptimizeRunProofs!EvidenceTellsPack` | where there is a pack, `Evidence` selects and excludes what it does, and is its own cut |
| `ContextPagingProofs!Types` | `Spec => []TypeOK` |
| `ContextPagingProofs!CandidatesOnce` | with `OneContentBudget`, `Spec => []EachCandidateOnce` |
| `ContextPagingProofs!PackIsBackedByEvidence` | `Spec => []EvidenceBeforePack` |
| `LiveBenchmarkProofs!Types` | `Spec => []TypeOK` |
| `LiveBenchmarkProofs!SuccessesAreEarned` | `Spec => []SuccessIsEarned` |
| `LiveBenchmarkProofs!ReleasesAreEarned` | `Spec => []ReleaseIsEarned` |
| `LiveBenchmarkProofs!RunsAreComplete` | a reported run has each pair of its plan once in each mode |

*Store.*  The assumptions are `StoreAssumption` and `PropertyAssumption`: the
special values differ from tables and files.  That a rename publishes a whole
database is not inductive: one has to know that the file under the session's
temporary name is the one it wrote.  `StoreInv` says so (`TempFileIsOwn`), and that
needs that no file has two directory entries (`EntriesApart`), so that writing to
one session's file disturbs neither the database nor another's file; it is
preserved because no two persists share a name.  `AtomicRewrite` and the refinement
then follow step by step: only `RenameTemp` and `Repair` move `dbFile`, and the
renamed file holds the session's memory.  `OpenTemp`, writes, chmod and failures map
to stutters or, where memory is dropped, to `Leave`.  `AcknowledgedDurable` adds the
induction that nothing moves `dbFile` while the only open session is past its rename.

*Hosts.*  `HostAssumption` says that there is a host, that the special values differ
from configurations, and what the user may write.  `Recoverable` is not inductive
either: a command may replace a file with something computed from an old read.
`HostInv` adds that a command that has planned a change knows the user's own hooks as
they are in the file and in its backups (`KnowsOwnHooks`), and that a file it is about
to create or replace has been backed up or was never written by the user
(`OnlyExpendable`).  The lemma `CommandEffect` states once what a command's step does
to files and backups, and the invariant of every other command follows from it.
For one command at a time, `SerialInv` accounts for every file (`Accounted`: as read, or
as replaced), says that what has been replaced can be put back (`Undoable`) and that what
was passed by was as asked (`Passed`).  `DoneAsAsked` needs no assumption about failures.
`FailureRestores` does: a chmod that fails leaves a replaced file that is in no list, and
an undo that fails ends the rollback.  The run `host_shared` refutes `KeepsEveryHook`;
`EveryHookKept` gives the condition under which it holds, also of commands that overlap:
that users put no hook into the managed group.  `NoneShared` is inductive then, since no
command makes such a group.  `AskedAgain` is about the computed contents: a command that is
repeated finds nothing to change, and so makes no second backup.

*Hook.*  Overlapping runs overwrite each other's records, so an invariant has to be
about every table there is, in the file or in a run's copy, and not about what a run
has done.  `HookInv` says that each of them is complete (no partial index, no injection
without index and analysis, no ledger without evidence: `Complete`), and what a run at each stage
has in its own copy (`Prepared`) or has found (`Found`); a save then publishes a complete
table whoever's it is.  `Announced` ties what the host was handed to what was on record.

*Ledger.*  `AcknowledgedIsRecorded` is not inductive: a later call saves a copy it took
earlier.  `LedgerInv` adds that what an acknowledged, undisturbed call has reported is in
the file and in the copy of every open session (`KeptByAll`), which a call can only get
wrong by having been open before, when both are `disturbed` (`Apart`).  That each step
keeps it rests on lemmas about `Merged`, for ledgers and reports of any length: it gives a
well-formed ledger (`MergedType`) and forgets neither an entry nor a known usage
(`MergedKeeps`); `LatestKnown` finds the last known usage by the well-founded order on
positions.  `Sound` ties the entries of every table to metrics and tasks.
`SessionPreserves` says once what saving a table leaves to show, and every action of a
session is an instance.

`LedgerIsReplay` compares the file with one merge of everything in order.  `StepEffect` says
once what any step does to ledgers (`Effect`): it passes on one that the file or an open
session has, or merges the report of its call into the copy of its session.  `ReplayInv`
says that, unless sessions that reported to a run overlapped, the file and every open
session have the replayed ledger of that run.  The replay runs entry by entry, as the loop
of `mergeTokenLedger` does; `MergeIsLoop` shows, for any ledger and any entries, that it
computes `Merged`, by `SetInduction` on the number of entries merged.  `MergesCompose` and
`MergesRepeat` are the laws behind it: merges may be taken together, and a repeated one
does nothing.  `ReportsAreWhole` holds even for sessions that overlap: every ledger is a
merge of whole reports of ended calls to its run, none twice (`MergeOf`).  A call may be
lost, but never half of one.  The assumptions are `ReportsAssumption`, `NoneAssumption` and
`BoundsAssumption`: what reports are, that `None` differs from the rest, and that bounds
are numbers.

*Index.*  None of the four properties is inductive, since an inspection ends long after
it has begun.  `Limited` says that a path that was walked waits, is at a worker or is
found, and once (`Apart`); that these are no more than what has been scheduled
(`Counted`); and that the bytes found and those being read are no more than what has been
reserved (`Reserved`).  The sums of bytes are by `MapThenSumSet`, whose laws are proved
first (`SetInduction` replaces the induction theorems by a set of numbers).  For
`WarmIsCold`, `Fresh` says what an entry is worth: it is true of its file as long as the
file's time of modification is the entry's (`Stamps`), and so is an inspection that has
its stat (`InspectionsStamped`); as every edit moves the time, what is reused is what is
there (`Current`).  `Covered` says that a path can only be missing with a warning.
`Honest` ties every analysis to its hash, and `disturbed` to `touched`.
The hypothesis `LinksStay` says that the sessions agree on the file a link leads to; the
code cannot tell two files of one size and time apart behind a link (see the findings).
The assumptions are those that `Indexing` states of its constants.

*Sessions over one cache.*  `OptimizeRunProofs!IInv` says of each kind of record what it
is worth to whoever takes it.  An analysis is, file by file, that of a content (`FoundIn`):
of the one of its hash, or of another one the file may have had if it was edited under a
session (`Contained`); and in full, or reduced if the hook has saved it for that content (`Known`).  So
it has, undisturbed, the imports and, but for hidden names, the symbols of the indexed
content (`KnownFacts`).  A summary is of the content that is its hash (`SummaryFor`).  A ranking, under
a key that names the files, the task and the options, accounts for all files once
(`Whole`), has the named files first (`NamedLead`), leaves one out only for the budget
(`NamedFit`), and what is cut from it is what is cut from a fresh one of some
analysis that is known in this sense (`CutOfKnown`; which one, the cache no longer says):
together `Ranked`.  These are relative to `disturbed` and `sanitized`, which only grow
(`HistoryGrows`), so a record that is saved stays as good (`KnownMore`, `SummaryForMore`,
`RankedMore`).  A saved ranking is not the ranking that was made, but the evidence of the
pack: `EvidenceIsCut` shows that it is the cut, and `CutIsWhole` and `CutIsRanked` that
cutting it again changes nothing, which is where a greedy selection within a budget could
go wrong; `EvidenceTellsPack` puts it together.  `RankContextIsRanked` says it of a new ranking; it rests on the laws of
`InOrder`, `Kept`, `WithinBudget` and `Selected`, for any files, scores and limits, and on
the fact that the three orders are strict and total (`BetterOrders`, `PreferredOrders`,
`NamedFirstOrders`: products of scores and costs compare crosswise).  `KnownIsFrom`
finds, for every analysis that is known, the contents and the reductions that
`PackIsCurrent` asks for; reducing twice is reducing once (`ReducedOnce`).  `AssessedAlike`
shows that an assessment looks at nothing the hook takes out, `SkipsAlike` that it does
not change without a new hint.  The assumptions are those of `Ranking` (numbers of tokens
and weights, imports within the workspace), `RunAssumption` and `TasksAssumption` (a task
has finitely many words, and a length in one of four classes).

*Packs.*  With a cache, a build comes to its answer only through a save of its evidence,
and a save that is rejected ends it without a pack.  `PagingInv` says so of every stage
after the save (`SavedFirst`); `Tabled` is the shape of what sessions read and save, which
tells that the evidence just added is in what is saved.  `EachCandidateOnce` needs that
what a pack shows is the beginning of what its pages are cut from (`Cut`).  A build
lists the candidates it puts off before those that were never selected; the evidence
lists both by rank.  The two orders are one (`OthersAreExcluded`) if the ranking it works with
selects the first ranks (`Leads`, by `InOrderJoin`: a set that lies before another is
listed before it), or if the content budget leaves it as it is (`Fitting`), which
`FitsAgain` shows of all that was selected within that budget and of every part of it.
`RankingsInv` says that every ranking in the file, in a session's copy and at a build is
of one of these kinds, `PagesInv` that what has been shown and read is the evidence up to
the cursor.  The hypothesis `OneContentBudget` is the one the code cannot do without (see
the findings); TLC refutes the property for two budgets.  `PagingAssumption` says that
limits and sizes are numbers and that `None` is no offset and no ranking.

*Live benchmarks.*  `EarnInv` says at each stage of a case what has truly happened in
it: an exit code of zero, an accepted set of changed files and a validator's verdict are
grounded in `fact` from the stage that found them on (`Grounded`), and a stage that fails
or a process that is ended grounds nothing.  `PairInv` says what is left of a pair.
`ReleaseIsEarned` is about a whole run: `ListInv` says that the list of cases follows the
plan, with every case of an earlier pair, of the pair at hand those of the modes that are
done, and each once (`EachOnce`, `Due`).  A reported run then has as many cases with the
optimizer as without it (`EvenModes`, by a bijection), so that where all succeed, a lower
cost per success is a lower cost (`LowerCost`; `CostOfType` for the sum), and the case the
report compares another with is that of its pair (`FoundCase`).  The last needs
`IdsAssumption` (see the findings).  `RunsAreComplete` states the outcome of `ListInv`: what a
report compares are the same pairs on both sides.  The other assumptions are that `None` is neither a
child nor a case nor a usage, and that usages, prices and repetitions are numbers.

Only model-checked is liveness (`CallsEnd`, `RunsAnswer`, `SessionsEnd`, `RunEnds`),
which is beyond the prover.  What TLC refutes (`KeepsEveryHook`, `RewrittenAtomically` with
shared names) is proved under the hypothesis that excludes the case.  The library's
induction theorems take an operator, which the provers cannot instantiate; where a
recursive function is proved about, the claim is a set of numbers, and `SetInduction`
shows that it has all of them.

## 5. Plan

Done: the cache with its abstract specification and proofs, the hook, the host
adapters, the run ledger, discovery and analysis, ranking and packs over a cache,
packs and pages, and live benchmarks, each with its safety properties proved.  Left:
`summarize_targets` and the offline runner, which keep no state that another part reads.

## 6. Not modelled

* Text processing: ignore patterns, what a parser or a regular expression finds in a
  content or a task, the text of summaries, the patterns of redaction, rendering of the
  hook's context and of reports.  None of it has state, order or failure to model.
* Of ranking: recency, the caps on the number of hints, the logarithm of the inverse
  document frequency (a parameter, `Idf`) and rounding; scores are whole thousandths.
* Of `OptimizeRun`: overlapping sessions (`SqliteStore`, `HookRun` and `RunLedger` have
  them), the walk and the reuse of hashes (`Indexing`), the reduction to a response
  budget (`ContextPaging`).  A hash is the content it is of, and no word of a path is
  taken for a secret.
* Of `record_run`: `summarizeTokenLedger`, the answer without a cache, and the conflict
  of kinds, since ids of the two kinds differ.
* Of live benchmarks: durations, diagnostics, the captured text and HTML.
* `init` (writes one file if it is not there), `doctor`, `health`, `estimate_tokens`,
  `summarize_targets`, inspection, logging and counters.
* SQL, migrations and the serialized form of a database: a table is a function from
  keys to values.
* Durability below the file system: a rename that has been done is not undone by a
  crash of the process.  The code calls no fsync, and a power failure is not modelled.
* The offline benchmarks, the rendering of reports and the scripts: sequential tooling.

## 7. Running

    tlc -config MCStoreApart.cfg MCStore.tla      # likewise the other runs
    tlapm SqliteStoreProofs.tla
    tlapm HostConfigProofs.tla
    tlapm HookRunProofs.tla
    tlapm RunLedgerProofs.tla
    tlapm ContextPagingProofs.tla
    tlapm LiveBenchmarkProofs.tla
    tlapm IndexingProofs.tla                      # some minutes
    tlapm OptimizeRunProofs.tla                   # some minutes
