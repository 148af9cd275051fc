# Verification of the icon editor's build orchestration

This directory holds TLA+ models of the programs that build, bind, package, check
and release the LabVIEW icon editor, the TLC runs that check them on small
instances, and TLAPS proofs of what matters most for instances of every size.
The reference is the code under `src/`; `PROJECT.json` names, for every
definition, the lines it stands for.

Contents: [the system](#the-system) ·
[the models](#the-models) ·
[the runs](#the-runs) ·
[the proofs](#the-proofs) ·
[where the code and its documents differ](#where-the-code-and-its-documents-differ) ·
[abstractions](#abstractions-and-what-they-leave-out) ·
[plan](#plan)

## The system

The repository holds a LabVIEW application and a large amount of tooling around
it: what builds it on Windows runners, and what the repository and its embedded
`x-cli` use to govern changes to it. The LabVIEW sources are binary; the program
logic that can be modelled is the tooling. It keeps almost all of its state in
files, comments and branches that several processes share, and most of it was
written as if one process ran at a time.

| Part | Code | State | Operations | Interacts with |
| --- | --- | --- | --- | --- |
| local-sd | `Tooling/dotnet/OrchestrationCli/Program.cs`: `RunLocalSdOnce`, `RunLocalSdSim`, `TryAcquireLock`, `ReleaseLock` | lock file `.locks/orchestration.lock` with run key, time and TTL; `artifacts/`; `builds-isolated/<key>` | acquire, run a task graph, hash, stage, release | tests and scripts started as children; the PPL hand-over reads its zip and its lock |
| sd-ppl-lvcli | same file: `RunSdPplLvcli` and the functions it calls | an exclusive file handle per clone, a worktree, a zip, the machine's extract directory, phase results | about twenty phases, a finally block, copy-back, worktree removal | the dev-mode scripts, LabVIEWCLI, g-cli, git |
| development mode | `scripts/bind-development-mode`, `set-`, `revert-development-mode`, `add-token-to-labview`, `task-devmode-bind.ps1`, `DevModeAgentCli` | `LocalHost.LibraryPaths` in `LabVIEW.ini`, one file per version and bitness | bind, unbind, status, clean up, revert; the agent's plan from an earlier summary | called by sd-ppl-lvcli, the PPL hand-over, editor tasks and `DevModeAgentCli` |
| x-cli rules engine | `Tooling/x-cli/codex_rules` | an SQLite database (pull requests, their files, test events, guidance), committed statement by statement; memory, telemetry, summary and `AGENTS.md`, each rewritten whole | record, ingest, analyse, prune, check compliance, warn, export, update docs; `run-workflow` runs them in a row | CI steps and hooks; git's index |
| x-cli comment-driven bots | `scripts/codex_bridge.py`, `scripts/reviewer_bridge.py` | sessions and proposals on the default branch, branches, pull requests and labels; a local cache of frozen inputs | start, say, propose, apply, end; review a pull request | GitHub, a language model, each other's branches |
| x-cli commit hooks | `hydrate_metadata_from_issue.py`, `prepare-commit-msg.py`, `enrich_commit_summary.py`, `check-commit-msg.py`, `finalize_commit_memory.py`, `run_pre_commit.py` | `.codex/metadata.json`, a record of the attempt, quality telemetry, `docs/srs` | prepare, enrich, check and record a commit | git, the developer, the registry of requirements |
| test gates and release | `.github/scripts/*.py`, `ci.yml`, `dod-aggregator.yml`, `test-report.yml`, `draft-release.yml` | the traceability matrix `rtm.csv` and the files it names; job results, incidents, artifacts, releases | check coverage, report, file incidents, aggregate, merge, release | GitHub, main moving under open pull requests |
| x-cli pull request comments | `x-cli/.github/workflows/pre-commit.yml` and its scripts | comments with markers, the pre-commit templates | sync, lint, list comments, create or update one | GitHub; one run per push, not serialised |
| x-cli telemetry and notifications | `notifications/`, `analyze_*`, `render_*`, `telemetry-aggregate.yml` | summary histories of bounded length, one message in flight | analyse, compare, alert through four providers on threads of their own | Slack, Discord, mail and GitHub |
| PPL hand-over | `scripts/orchestration/Run-LocalSd-Ppl.ps1` | worktree, extracted zip, handshake file | local-sd, extract, bind, build, write the handshake | local-sd (its lock and its zip), development mode |
| other orchestration commands | the rest of `OrchestrationCli/Program.cs` | none beyond their results | one child process each; package-build is a sequence of them | g-cli, vipm, the scripts |
| x-cli log and replay | `Tooling/x-cli/src/XCli` | an append-only JSONL file, shared by processes | append with retries; replay; simulate | every wrapped tool |
| Ollama executor | `scripts/ollama-executor` | conversation, turn counter | ask the model, veto or run its command, stop | an HTTP service, child shells |
| CLI resolver | `scripts/common/resolve-repo-cli.ps1` | publish cache keyed by commit | look up, publish, return a path | every script that starts a .NET tool |
| worktree builds | `scripts/worktree-build.ps1` and neighbours | worktrees | create, build, remove | development mode, git |
| distribution, package and version scripts | `scripts/build*`, `verify-*`, `compute-version` | files they produce | sequential processing | started by the above |
| front ends, format tools, other workflows, LabVIEW sources | `IntegrationEngineCli`, `VipbJsonTool`, `.github/workflows`, `*.vi` | none of their own | forward, convert, declare | — |

What makes this hard to test:

* **Processes that share files.** Two editors' tasks, an agent and a CI job can
  start the same command in one clone, and different clones share the machine:
  one LabVIEW, one `LabVIEW.ini` per bitness, one extract directory. The rules
  engine's processes share a database without transactions around a command.
* **Locks made of files.** One lock is a file that is read, judged and written in
  three operations and deleted by whoever ends; the other is an open handle,
  released by the system when its process dies. Most other files have no lock.
* **Work on something that moves on.** A bot works on the checkout it started with, a
  workflow on the merge commit of its trigger, a comment script on the page it
  listed, a hook on metadata written before; all write afterwards.
* **Kills.** Runs are stopped by CI timeouts and by users. A killed run executes no
  finally block, and the tool it was waiting for goes on.
* **Half-done steps.** A bind can write the token and fail afterwards; an unbind can
  report success without restoring; a push can be refused and its exit code
  ignored; an append can be cut short; a filing step can stop after two incidents.
* **Left-overs.** Zips, extract directories, worktrees, tokens, records of refused
  commits and frozen inputs of earlier runs are found, and sometimes used, by
  later ones.
* **Two implementations of one rule.** Coverage thresholds, the requirement registry
  and the message template are each coded twice, in scripts that must agree.

`PROJECT.json` lists these hazards one by one, at the line where each bites, with
the properties that would catch it going wrong.

What correctness means, part by part:

* *local-sd*: two task graphs overlap only when the documented ways around the lock
  were used; what is staged is what the same run built and hashed; no stale lock.
* *sd-ppl-lvcli*: one run per clone; every build happens under the run's own token;
  the packed library is built from the run's own distribution; nothing stays bound;
  only good outputs are published; the lock is always given back.
* *development mode*: what a call reports is so afterwards; a call without force
  leaves other repositories' entries alone; a failure or a kill leaves a state the
  callers expect; of overlapping binds one holds.
* *rules engine*: what is counted is right whoever adds to it meanwhile; a gate that
  passes has seen every required command run; the active rules are those the data
  justify; files lose history only to named faults.
* *bots*: a pull request carries the proposal it names; what a thread has said is
  never overwritten, and lost only to a push that was refused or a run that was
  stopped; two reviews of frozen inputs agree; records follow what was posted.
* *commit hooks*: what is committed is registered; what one hook prepares the other
  accepts; what is recorded of a commit is its own; retries can be told apart.
* *test gates*: a release has no gap of high or critical priority; the report and the
  gate agree; incidents are exactly the gaps; green jobs have earned it.
* *pull request comments*: one comment per script unless a race or a full page
  explains the second; a comment says what failed; following it settles it.
* *telemetry and notifications*: an alert is true, and a missing one has a cause; a
  provider's answer may be trusted and no provider takes another with it; every
  job ends.
* *PPL hand-over*: the handshake is written exactly when its inputs exist and belong
  to the same run.
* *invocation log*: every accepted entry is in the file once or more, whole, and the
  caller is never blocked longer than its budget.
* *Ollama executor*: never runs a vetoed command; ends within its turns and its time.
* *CLI resolver*: a path handed out is a complete publish of the right commit.

## The models

| Module | Models | Used by |
| --- | --- | --- |
| `LocalSd` | concurrent invocations of `local-sd` | `LocalSdProofs`, `MCLocalSd` |
| `SdPplLvcli` | concurrent invocations of `sd-ppl-lvcli` | `SdPplProofs`, `MCSdPplLvcli` |
| `SdPplSession` | what `sd-ppl-lvcli` promises, abstractly | `SdPplLvcli` (refinement), `SdPplProofs` |
| `DevModePromises` | what the development-mode scripts share and promise | `DevMode`, `SdPplProofs` |
| `DevMode` | development-mode binding, edit by edit | `MCDevMode`, `SdPplProofs` (as the instance `Dev`) |
| `DevModeOutcomes` | what a bind or revert may leave behind | `SdPplLvcli` assumes it, `DevMode` shows it |
| `RulesEngine` | the commands of the rules engine, statement by statement | `MCRulesEngine`, `RulesEngineProofs` |
| `ChatRepo` | what the two bots share on GitHub | `CodexBridge`, `ReviewerBridge` |
| `CodexBridge` | the bot that turns comments into pull requests | `ChatOps` |
| `ReviewerBridge` | the bot that reviews pull requests | `ChatOps` |
| `ChatOps` | both bots on one repository | `ChatOpsProofs`, `MCChatOps` |
| `CommitHooks` | a developer's attempts to commit through all hooks | `CommitHooksProofs`, `MCCommitHooks` |
| `Rtm` | the traceability matrix and the two coverage implementations | `TestReports` |
| `TestReports` | the report generators as functions of a checkout | `TestGates` |
| `TestGates` | the workflows on pull requests, pushes and releases | `TestGatesProofs`, `MCTestGates` |
| `PrComments` | the comments `pre-commit.yml` keeps on a pull request | `PrCommentsProofs`, `MCPrComments` |
| `Notify` | one message through four providers | `TelemetryAlerts` |
| `TelemetryAlerts` | telemetry histories and the alerts made of them | `AlertProofs`, `MCTelemetryAlerts` |
| `*Proofs` | the theorems | — |
| `MC*` | the instances TLC checks | — |

Operators named `Bug_*` are plausible mistakes. The models never use them; they
serve to see that each property fails when the code is wrong in that way.
### LocalSd

One process per invocation. The lock file is a variable with the states absent,
unreadable and written (with its writer and its time), because `TryAcquireLock`
reads and parses it, judges it, and then overwrites it with `File.WriteAllText`:
three file operations between which anything may happen. They are the actions
`CheckBusy` / `CheckPasses`, `WriteTruncates` and `WriteFills`; `Filled` says what
two writers in the same file can leave. `AcquireFails` is the outer `catch`. The
task graph is a sequence chosen by the options (`Tasks`), one action per task that
ends well or badly (`TaskSucceeds`, `TaskFails`; a failing task may have had its
effect). `Release` deletes the file whoever wrote it, `ReleaseFails` is the
swallowed exception, `Crash` a killed process. In simulation mode
`RunLocalSdOnce` calls `RunLocalSdSim`, which acquires the same lock again; `level`
tells the two levels apart. Files under `artifacts/` and `builds-isolated/` are
represented by the run that last wrote them.

`intrusions` is a history variable: for each admission beside another admitted
run it records whether the check raced a write, the TTL had passed, or force was
given. `OverlapHasCause` says that there is no fourth way.

### SdPplLvcli and SdPplSession

The lock is a `FileStream` opened with `FileShare.None`, so it is a variable naming
the run that holds the handle; it ends with the process. `pc[r]` is the phase
whose child process is running, and the action named after the phase is its
completion: it records the result (`Record`, with `affectsOutcome` as in the code),
changes what the phase changes and goes where the code goes. An exception jumps to
the `finally` block (`Throw`), whose conditional closes and unbinds are actions of
their own. Then come the disposal of the handle, the three copies, the log stash
and the removal of the worktree. `Crash` kills a run; if a tool was running,
`orphan` remembers the phase and `OrphanEnds` lets the child finish later, with any
of that phase's effects on the machine.

What belongs to the clone (lock, zip, outputs) is indexed by clone or run; what
belongs to the machine (`token`, `extract`, the plugins of the extracted tree) is
not, so that runs of two clones do meet. Contents are represented by their origin:
`zip[z]`, `extract`, `plugins[t]` name the run whose Source Distribution or packed
library it is, `sdFrom[r]` the token the distribution was built under.

`SdPplSession` is the promise behind these forty actions: a run enters its clone
alone, may work and fail, leaves with nothing bound, and publishes only after
that and only clean work. `Session` in `SdPplLvcli` gives the refinement mapping
(`held` from the two bound flags, `stage` from the phase, and so on).

### DevMode, DevModePromises and DevModeOutcomes

Terminals start calls, one at a time each. A call is made by a script or by
`DevModeAgentCli`, in one of the modes of `BindDevelopmentMode.ps1` or as a plain
`RevertDevelopmentMode.ps1`, with or without `-Force`, `AutoFixOtherRepo` and
`-DryRun`, for one or both bitnesses. `ini[a]` is the sequence of
`LocalHost.LibraryPaths` entries of the `LabVIEW.ini` of bitness `a`. Each helper that
edits the file is two steps, `ReadIni` and `WriteIni`, since `Get-Content` and
`Set-Content` are separate and nothing locks the file; `Edited` says what each
helper makes of the entries (`Distinct` keeps the first of each path, as the table `$seen`
of `Clear-StaleLibraryPaths` does, `Without` drops the target's, both by `Picked`, the
entries at a set of positions), `AfterEdit` and `AfterFailedEdit` where the script goes
from there (some errors are only logged, some lead to an attempted revert).
`Decision` is the sequence of conditions of the loop over bitnesses, from `status` to the
choice between the two ways to unbind. `SetDevelopmentMode`, `Prepare`,
`CloseAfterSet` are the rest of `Set_Development_Mode.ps1`; `ShouldRestore`, `Restore`
(with `RunRestore` of the CLI inside) and `CloseAfterRevert` are
`RevertDevelopmentMode.ps1`, called by an unbind, after a failed bind, or directly.
`Report` writes the summary that `Plan`, the agent's `BuildPlans`, reads next time.

`SdPplLvcli` uses binds and reverts as single steps with an outcome out of
`BindOutcomes` and `UnbindOutcomes`. That these sets are complete is not an
assumption: `OutcomesCovered` is checked in `DevMode`, where every step of the
scripts can fail or be killed, and proved for every instance of it. The proof is in
`SdPplProofs`, beside the theorems about the pipeline that count on those outcomes;
the state and the promises are in a module of their own, `DevModePromises`, which it extends
beside `SdPplLvcli`, and `DevMode` is the instance `Dev` of it.

### RulesEngine

A process runs one command of `cli.py`; `Script(c)` is the sequence of steps the
command consists of, several for `run-workflow`. The four tables are variables and
every SQL statement is an action, because the connection commits after each: a
loop of `analyze` reads a pair's files, its failures and the number of pull requests
(`SelectTouched`, `SelectFailed`, `SelectUniverse`) while another process may insert
between them. The statistics (lift, confidence, Fisher's exact test) are
computed with exact fractions, since the thresholds decide what becomes a rule.
`memory.json`, `telemetry.json`, the summary and `AGENTS.md` are read whole,
truncated and filled in three actions; `Loaded` says what a damaged file reads as,
`Fails` and `Killed` end a command at any step. `kept` is what should be in each file
and `harmed` remembers that a file met a kill between truncate and fill or a second
process that was rewriting it: `FilesKept` says that nothing else loses an entry.
`alone` marks a command no other ran beside; `GateHolds` and `RulesFollowData` are
promises to such a command only, and fail without that condition.

### ChatRepo, CodexBridge, ReviewerBridge and ChatOps

`ChatRepo` holds what both bots see: the default branch (a revision, a session and a
sequence of proposed patches per thread), the pushed branches, and the pull
requests with labels and head. A bridge run works on the checkout of its start
(`base`); `ahead` says it has committed since. `FastForward` and `Push` model `git push`
with its exit code ignored, as `run_git` leaves it: `hurt` remembers that a push was
refused or lost, which is the only way, besides a run that stopped, in which a
session or a proposal may vanish (`LossHasCause`). `Apply`, `Branch`, `PushBranch`,
`OpenPr` and `LabelPr` are the calls of `/codex apply`, each of which can fail after the
ones before have had their effect. A proposal is a model value with a size, the
paths it touches, and whether it has something like a secret, since that is what
`validate_patch_text` judges.

A reviewer run loads the pull request, its diff and its files in three requests
between which the head may move (`PushHead`); in a developer's clone `Freeze` keeps
what was read for later runs. It posts the critique, sets a label and saves a
record, each of which may fail. `ChatOps` puts both on one repository, adds the
maintainer's label (`Mark`) and bounds the number of runs.

### CommitHooks

Git runs the hooks in order, so an attempt is one record `try` that moves from
`Commit` through `PreCommit`, `Prepare`, `Edit`, `Enrich`, `Check` and `Write` to
`Finalize`; hazards come from what happens between attempts and beside them:
`Hydrate` rewrites the metadata, `EditSpec` changes a specification's version,
`Interrupt` stops anywhere, and a commit may bypass the checks. The first line of a
message is a base and the tokens in its brackets (`Fitted` is the trimming to fifty
columns, in the order of the code). `VersionOf`, `Specs` and `Resolved` are the registry of
requirements as each of the two scripts reads it.

### Rtm, TestReports and TestGates

A checkout is a record of the matrix's header, its cells and the files there are.
`Rtm` translates both coverage implementations (`ThresholdsMet` of `rtm_utils.py`,
`CheckCoverage` of the gate) and `validate_rtm.py`; `TestReports` is every report
generator as a function from checkout and inputs to exit code, verdict and
contents, `Failed` when an exception escapes. `TestGates` says which checkout each
workflow evaluates and when: `RtmGates`, `DodAggregator` and the four steps of
`test-report.yml` (`WriteReports`, `FileIncidents`, `WriteStatusAgain`, `RerunTestReport`) on
the merge commit of a pull request, `Merge` on `main` as it is then, `MainCi` on each
push, `DraftRelease` after a success, with the artifacts of that run and a tag of
whatever `main` is by now, `Complete` for the completion report run by hand.

### PrComments

Every push starts a run, and runs are not serialised, so `runs[n]` is the place of the
run of push `n` and `comments` the pull request's, oldest first. The two scripts that
keep a comment, and the third run by hand, list the first page
(`SyncList`, `HintList`, `HandList`) and write afterwards (`SyncWrite`, `HintWrite`,
`HandWrite`); in between other runs write, comments are deleted, calls fail.
`Existing` is the loop of `find_comment` over the page. The fields `saw` and `page` of a
comment are history: what its writer had been shown when it decided to create it.

### Notify and TelemetryAlerts

`Notify` is one message: `Discovered` and `DiscoveryRaises` are `from_env` of the four
providers, `Try` one attempt of a provider's thread (delivered, delivered with the
answer lost, or neither), `Gather` the collection of futures. `TelemetryAlerts` runs
three kinds of jobs over one directory: `Analyze` appends a line to a history of
bounded length, `Render` compares the last two lines and sends what got worse,
`Post` sends the closing message of the workflow. A history line is the number of
the run it tells of, or cut short by a kill (`KilledInAnalyze`). `Telling` decides what is
told; the properties compare it with the runs themselves, which the code never sees.

## The runs

| Run | Instance | Question |
| --- | --- | --- |
| `local_sd_mixed` | 2 invocations, each one of five option sets; the clock ticks once, TTL 1 | when do task graphs overlap; is what is staged and hashed the run's own; is a stale lock left |
| `local_sd_takeover` | 3 unforced harness runs, no race needed | does a fresh lock exclude (it does not) |
| `sd_ppl_one` | 2 runs of one clone, two option sets | exclusion, own tokens, own inputs, publication; the refinement of `SdPplSession` |
| `sd_ppl_two` | 2 runs of two clones | does every token left behind have a cause |
| `sd_ppl_release` | 1 run, every combination of options, with fairness | is the handle always closed |
| `devmode_contend` | 2 terminals, 2 checkouts, 2 bitnesses, 2 calls out of eight kinds | are reports true, outcomes expected, other entries spared, binds not all lost |
| `rules_pair` | 2 processes, two of sixteen calls; 5 pull requests, 2 components, one day that passes | are counts right under concurrent inserts; what loses history; do gate and rules hold for a command that was alone |
| `chatops_thread` | 1 thread, 2 bridge runs and 2 reviews of which 2 start; a head that moves once | does a pull request carry its proposal; what may be lost; do frozen inputs agree; is the record of a review true |
| `commit_hooks` | 3 attempts; 4 identifiers, 2 specifications, 2 versions; a short and a long summary | is what is committed registered; do the two hooks agree; is the record the commit's own |
| `test_gates` | 2 pull requests, 7 changes; 4 requirements; 2 attempts, 1 completion run | can a gap be released; do report and gate agree; are incidents the gaps; is green earned |
| `pr_comments` | 2 pushes and a hand-run script; pages of 2, 4 comments | what makes a second comment; is what a comment says right; does following it help |
| `telemetry_alerts` | 3 runs of three kinds, history of 2, 4 environments, with fairness | are alerts true and complete up to named causes; are answers true; does every job end |

`local_sd_takeover` is expected to be violated, the others to pass. The properties
of a run are conjunctions of named parts where several belong to one question:
`CountsAreRight`, `HistoryKept`, `RegistryGuards`, `TrailHolds`, `RecordsAreTrue`,
`IncidentsMatchGaps`, `GreenIsEarned`, `CommentsHelp`, `AnswersAreTrue`,
`AlertsMatchRuns`, `ReportedIsSo`; the type invariant of a module is one of the parts.

The instances are small for these reasons:

* *Two actors.* Every hazard listed involves one actor, or one actor and what another
  one does meanwhile or left behind; only the take-over needs a third run, and
  `local_sd_takeover` has three. For what is proved, any number is covered.
* *A clock with two values and TTL 1.* A lock is fresh or expired, and can become
  expired during a run; the code compares nothing else.
* *One attempt per invocation* in `LocalSd` and `SdPplLvcli`: a process runs its command
  once and exits. Left-overs of earlier processes are initial states (`dir`, `token`)
  or come from the run that went first.
* *Two calls* in `DevMode`, by one terminal or by two: enough for a call to meet what an
  earlier one left, or to interleave with one at every read and write. Initial files
  hold no entry, the checkout's, or the checkout's among others of which one is repeated and
  one double-rooted, so that first entry, any entry, a repeated entry and no entry are told
  apart.
* *Options.* `sd_ppl_one` takes the two option sets that differ in everything, because
  the full product has thirty-six pairs instead of three; `sd_ppl_release` has all eight.
* *Scaled thresholds.* In `rules_pair` the window is zero days and not thirty, two
  failing pull requests make a rule and not three, and alpha is 1/3: the code takes
  all three from `.codex/rules.yml`. One pair then becomes a rule, does not, wears off after
  a day, and one result more or less decides; earlier pull requests supply both
  outcomes of every cell of the contingency table.
* *Three attempts to commit*: the record that counts is that of an attempt after one that
  was refused and one that was made. The two summaries are one with room for every
  token and one without any.
* *Four requirements*: two critical rows share a file, so that one change makes two
  gaps, one is high and one medium. The seven changes include pairs that are harmless
  alone and leave a gap together (renaming a test to a file, deleting that file).
* *A page of two comments* for the code's hundred; the third comment is out of sight.
* *Three runs and a history of two* make a line roll out.

Symmetry over runs, terminals, processes or pull requests is used where the property is
an invariant or a safety property without fairness and no constant tells the permuted
values apart. `CHECK_DEADLOCK FALSE` is set because every process makes its attempts
and stops, or a bound on pushes, runs or days is reached.

*Fairness.* `sd_ppl_release` needs weak fairness of each run's `Process`, the next step of
a process that has begun. The code justifies it because the program has no wait of its
own: every child runs under `RunProcess`, which kills it at the timeout. `Crash` and the
start of a run are not fair; a kill closes the handle too. `telemetry_alerts` has weak
fairness of `JobStep` and `Sending`: the scripts are sequential, `notify_all` waits for
threads only, and each thread for requests that carry a timeout. Kills and the
arrival of new runs are not fair.

## The proofs

`tlapm` checks these for all values of the constants that satisfy the named
assumptions of each module (the special values are distinct from runs and clones,
options are records of booleans, cells are files or one of two special values, a page
holds at least one comment, the template of the hook links has some, a check may be attempted at least once, an environment has
the fields `from_env` reads, a run counts natural numbers, a comment has one of the verbs
of the bridge, a request the fields `get_ctx` and the `REVIEWER_*` variables give it, summaries and
tags have a length, the specifications are finitely many, the commands of the rules engine have the
types `argparse` gives their arguments, the tables are as earlier processes could leave them, and
`min_lift` is at least 3/2, the lift below which `prune` removes a rule: the default is 3, and with
less `analyze` would make rules that `prune` removes in the same workflow). One assumption is about where a
behaviour starts: the pull requests there are at first come from authors and are not
labelled as reviewed, since what the label says is stated about the reviews since.
For `DevMode`: the paths are told apart, bitnesses are finitely many numbers, calls are records
of options, a revert is of one bitness and the agent binds or unbinds. (`DevAssumption` says so
of the instance; `AssumptionHolds` proves it from the assumptions of `DevModePromises`.)

| Theorem | Statement |
| --- | --- |
| `LocalSdProofs!TypeCorrect` | `Spec => []TypeOK` |
| `LocalSdProofs!SoleAdmissionHolds` | `Spec => []SoleAdmission` |
| `LocalSdProofs!OverlapExplained` | `Spec => []OverlapHasCause` |
| `LocalSdProofs!NoLockIsLeft` | `Spec => []NoStaleLock` |
| `LocalSdProofs!StageIsOwn` | `Spec => []StagesOwnWork` |
| `LocalSdProofs!IndexIsOwn` | `Spec => []BuildsFromOwnIndex` |
| `SdPplProofs!TypeCorrect` | `Spec => []TypeOK` |
| `SdPplProofs!LockHolds` | `Spec => []LockExcludes` |
| `SdPplProofs!TokenIsOwnHolds` | `Spec => []TokenIsOwn` |
| `SdPplProofs!BuildsOwnInputsHolds` | `Spec => []BuildsOwnInputs` |
| `SdPplProofs!OnlyGoodIsCopied` | `Spec => []CopiesOnlyGood` |
| `SdPplProofs!TokenLeftIsExplained` | `Spec => []TokenLeftHasCause` |
| `SdPplProofs!SessionImplemented` | `Spec => Session!Spec` |
| `SdPplProofs!ReportsAreSo` | `Dev!Spec => []ReportedIsSo` |
| `SdPplProofs!PipelineOutcomesCovered` | `Dev!Spec => []OutcomesCovered` |
| `SdPplProofs!OthersAreSpared` | `Dev!Spec => []ForeignSpared` |
| `SdPplProofs!ABindHolds` | `Dev!Spec => []SomeBindHolds` |
| `TestGatesProofs!ReleasesAreCovered` | `Spec => []ReleasedIsCovered` |
| `TestGatesProofs!VerdictsAreTheGates` | `Spec => []VerdictIsTheGates` |
| `TestGatesProofs!IncidentsAreTheGaps` | `Spec => []IncidentsMatchGaps` |
| `TestGatesProofs!GreenHasEarnedIt` | `Spec => []GreenIsEarned` |
| `PrCommentsProofs!TypeCorrect` | `Spec => []TypeOK` |
| `PrCommentsProofs!DuplicateExplained` | `Spec => []DuplicateHasCause` |
| `PrCommentsProofs!CommentsAreRight` | `Spec => CommentsHelp` |
| `ChatOpsProofs!TypeCorrect` | `Spec => []TypeOK` |
| `ChatOpsProofs!OnePrForAProposal` | `Spec => []PrCarriesProposal` |
| `ChatOpsProofs!AnnouncedIsSaved` | `Spec => []LossHasCause` |
| `ChatOpsProofs!RecordOnlyGrows` | `Spec => TrailHolds` |
| `ChatOpsProofs!FrozenReviewsAgree` | `Spec => []FrozenCyclesAgree` |
| `ChatOpsProofs!RecordsCorrect` | `Spec => []RecordsAreTrue` |
| `CommitHooksProofs!TypeCorrect` | `Spec => []TypeOK` |
| `CommitHooksProofs!HooksGuardTheRegistry` | `Spec => []RegistryGuards` |
| `CommitHooksProofs!RecordsAreOfTheirCommits` | `Spec => []RecordIsOfCommit` |
| `CommitHooksProofs!RetriesCanBeTold` | `Spec => []RetriesDiffer` |
| `RulesEngineProofs!TypeCorrect` | `Spec => []TypeOK` |
| `RulesEngineProofs!FilesKeepTheirHistory` | `Spec => []HistoryKept` |
| `RulesEngineProofs!CountsComeFromEvents` | `Spec => []CountsAreRight` |
| `RulesEngineProofs!GateIsEarned` | `Spec => GateHolds` |
| `RulesEngineProofs!RulesAreOfTheData` | `Spec => RulesFollowData` |
| `AlertProofs!AnswersHold` | `Spec => []AnswersAreTrue` |
| `AlertProofs!NobodyIsLeftOut` | `Spec => NobodyLeftOut` |
| `AlertProofs!AlertsAreTheRuns` | `Spec => AlertsMatchRuns` |

*LocalSd.* `OverlapHasCause` speaks only of runs in their graphs and is not inductive: a
run between its check and its write is not in a graph yet. `SoleAdmission`
strengthens it to all runs past the check and adds what the lock file then must
be: written by the admitted run, or unreadable while that run writes it. The heart
is `CheckSeesTheOther`: a run admitted beside another one has met a race, an expired
lock or a forced acquisition, so `intrusions` is no longer empty. The other actions
concern one admitted run (`StepOfOne`). A nested acquisition is its own case: the
simulation at level 2 is admitted while it checks.

`NoStaleLock` follows from `FileHasHolder`: a lock file always has a run that wrote it and
is still to delete it, was killed, keeps it on purpose, or whose deletion failed.
`StagesOwnWork` and `BuildsFromOwnIndex` need to know, for each task of the graph, what
the tasks before it have left in the artifacts: `GraphInv` says that, while there were
no intrusions, every file a later task relies on was last written by the run itself
(`OwnWork`). `SoleAdmission` is what keeps others from writing meanwhile; the lemmas
`BuildOfOwnIndex`, `HashOfOwnFiles` and `StageOfOwnFiles` are the three tasks that read,
`SuccessKeeps`, `FailureKeeps` and `OutsideKeeps` the steps that must preserve it.

*SdPplLvcli.* `LockExcludes` (a run is in the locked section exactly while the lock is its
own) is inductive with `TypeOK`. The two statements about builds need `BuildInv`:

* `Alone`: while `overlap` is false, at most one run is in a locked section on the whole
  machine, and then no orphan is at work. `overlap` is set by the acquisition that
  finds others at work, so it is a fact about the acquisition, not an assumption;
* `ZipOwn`: a zip that is not shared holds its own run's distribution or nothing;
* `InputsOf(r)`, while `overlap` is false: for each phase, what token, zip and extracted
  tree must be when `r` is there. Without it `TokenIsOwn` is not inductive, because the
  token of a build is set phases earlier.

`InputsStep` combines `PhaseInputs` (the run's own phase) with `OthersKeep` (another run's
step does not touch what `r` relies on, because of `Alone`).

*The session.* That every behaviour of the runs is one of `SdPplSession` rests on four
invariants. `LockExcludes` makes `Acquire` an `Enter`: nobody of the clone is inside.
`Bounds` makes `Dispose` a `Leave`: a bound flag is set only at phases that still have the
unbind ahead, on every path through the phases, a failure, a thrown exception or the
finally block. `Copied` makes each copy a `Publish`: who gets to a copy is clean or asked
for it, and nothing can fail any more once an output is in the clone. `ZipOwn` says
whose zip is copied. `SessionStep` then maps the step of each group of actions to one
action of the session or to a stutter, through `SessionActions`, which states them in
terms of the view. `CopiesOnlyGood` is a consequence of `Copied`; `TokenLeftHasCause` follows
from `Bounds` and `TokenCause`: the token of a run is there only while bound, after a
script that left it, or once the run was killed.

*DevMode.* No property is inductive: each speaks of the end of a call, and what makes it true
are edits made many steps earlier, each of what an earlier edit left. `DevInv` has, for each call,
`PlaceInv` (which calls get to which place, and that the packed libraries are gone from
`Set_Development_Mode` on) and `ResultInv` (the bitnesses are done in order, each with a result, and the
exit status sums them up); and for a call that nobody interfered with, `SoloInv`: `HereOK` is what
the file of the bitness at hand holds at each place, `FileOK` what the call may have made of any file
at any time, also half-way, `DoneOK` what it has achieved where it has reported success. `OtherFilesKeep`
is why bitnesses done earlier stay right: only the packed libraries are shared by them, and they are only
ever removed. An action then goes on at the same bitness, concludes it or ends the call, and
`StayStep`, `ConcludeStep` and `EndStep` show the three cases once; what is left for each action is what it
makes of one file (`EditIsOK` for the edits, `RestoredIsOK` for the restore). For `SomeBindHolds` calls do
interleave: whatever others did to a file meanwhile, the bind that is last to conclude has
just seen its own token there (`SomeInv`).

The edits pick entries by position, and sequences of any length are covered: a set of sequences that has the
empty one and every extension of its members has all (`SeqByAppend`, from the well-foundedness of
the natural numbers, since the induction theorems themselves are out of reach).
`DistinctAppend` and `WithoutAppend` say what one more entry changes; from them follow that one
selection after another is the selection of what both let through (`DistinctTwice`) and that
removing a token does not disturb the selection of the others or their order (`DistinctWithout`).
`OneEntry` evaluates the edits on the short files of `OutcomesCovered`.

*ChatOps.* None of the five properties is inductive: they speak of the default branch, and what
breaks them would be written by a run whose checkout is older than that branch. `RunInv(r, R)`
therefore says of every run `r` what its checkout is worth against the repository `R`, at each
stage: `Unwritten`, before anything was committed, that its proposals are a beginning of those
there, and equal to them if the branch is still at the revision it checked out; `ToSave`, with a
session to save, that a push which git would accept only adds, and adds nothing to a
session that is closed there; `Announced` and `ToOpen`, afterwards, that what the run tells of or
applies is recorded. The comparison of revisions is the whole of the protection, for `run_git` drops
the exit code of `git push`: a push is a fast-forward or nothing. `Grows` is what a push
does to the branch, `RunInvStays` that all of the above survives the pushes of others.
`PrInv` adds the branches: who is about to open a pull request has pushed the branch of the
proposal, nobody else has, and there is no pull request for it yet. For the reviewer,
`ReviewInv` follows what was frozen from the file to the comment (nobody changes a frozen
critique, not even a run that finds the file written meanwhile) and what was posted to the
label and the record. The two halves meet at one place, the repository and the pull requests,
and there are lemmas for what either does to the other's: `ReviewsStay`, `MarkKeepsReviews`,
`PushBranchKeepsPrs`, `OpenPrKeepsPrs`.

*CommitHooks.* What is recorded of a commit passes through a file between three scripts, and
refused attempts leave that file behind. `HookInv` follows it: from the end of
`enrich_commit_summary.py` on, the memory is that of the attempt that is under way
(`MemoryFollows`) and, after the commit, that of the commit (`RecordFollows`); the counter in the
line is not that of the last commit (`CounterFollows`); what the check let through still
fits and is still registered when git writes it (`CheckFollows`; a developer edits
specifications between attempts and while the editor is open, not while the hooks run). An
attempt that bypasses the hooks makes none of this true, nor does a merge for the length and the
registry, which the check exempts; the counter of a merge counts if its summary has room. `FittedFits`
says that the trimming of tokens ends within fifty columns unless the summary alone
is longer, whatever the lengths. `PreparedInv` is about the two scripts that read the registry:
a message that was prepared and left alone says what the metadata said, in the versions
the registry had then, and versions only grow, so that a registry which is the same at both
ends was the same throughout; `PreparedIsAccepted` then goes through the reasons for a
refusal one by one.

*RulesEngine.* The invariant comes in four parts, of which each uses the types alone.

* `TypeInv` knows what a process holds at each place of each step (`StepOK`) and that the steps
  that are left are in the order of `run_workflow` (`Ordered`; `update-docs` may stand at two
  places). `RestOfScript` is what the other parts need of it: nothing that has been done comes
  again.
* `FileInv`, for each file that has met no harm: at most one process is between its read and its write,
  the file is torn exactly while that process writes, and is otherwise what was put there.
  `SummaryInv` adds that a summary which is out of date has a process on the way to renew it. Most
  steps are `Quiet` for a file, which is shown once for all of them.
* `CountInv` says what a process may still rely on of what it counted earlier, although others
  insert: the failing pull requests it found, the support of its candidates and the first of the two
  counts of an export are bounds of what is there now, because rows only come in (`MoreRows`).
* `WorkInv` is about a process that is alone. `AloneInv` shows that nobody else runs then, so that
  the queries of one pair or rule still hold when their counts are used (`QueriesInv`); `Found` and
  `Checked` are the loops of analyze and prune, with the pair or rule in hand; `Progress` says of
  each of analyze, prune and the gate that it is still to come, or is behind together with all that
  could undo it, and has done its work. A rule that prune removes is never one the data
  deserve (`DeservedIsSound`): this is where `min_lift` matters. `GetsOn` carries
  `Progress` over any step, and `WorkflowEnds` reads off both theorems.

*TestGates.* `ThresholdsAgree` is the core: the percentages of `rtm_utils.py` and the counts
of `check_rtm_coverage.py` decide alike for every matrix, and `GateClosesGaps` says that
no high or critical row is without a file then. `GatesInv` carries the verdicts to the
merge commit they were made of and the artifacts to the push that passed.

What a pull request shows green or has filed is about an attempt that has ended, and the
attempt is what must be followed: `FiledAs` and `DodAs` of `GreenInv` say, per pull request
and attempt, that nothing has been filed before the step that files, that afterwards
either everything has or the attempt is red, and what the checkout was then;
`CompletionBlocks` says the same of main. `BlockedIsGap` and `CompletionIsGood` connect
the generators' verdicts to the rows of the matrix; `OneMoves` says that a step is of one
pull request, and `GreenPrStep` treats that one.

*PrComments.* `DuplicateHasCause` speaks of the past of two comments and needs to know what
each writer relies on between its list and its write: `WritersKnow` says that the last
id it saw has been given out, and that if it found none of its marker, its page was full or
every comment that has the marker now was made after it looked (ids only grow, pages are
a prefix of the comments, a deletion keeps the order). `SearchFinds`
is the search of the page: it returns the first comment of the marker, or zero only if
the page has none. For `CommentsHelp` the writer that found a comment matters: `Aims` says
that the comment it is about to change is still one of its own marker, whatever was
written or deleted since, because ids are given out once (`IdsAreOfOne`); and `RunFine`
that a run gets to a listing only with something to say. `SyncIsBlamed` is the case to
see: a links file that cannot be read is out of sync although it may hold every link, and
then the hook that checks the links is what fails.

*Notify and TelemetryAlerts.* `ThreadFine` says what the thread of a provider knows of
itself: at most as many copies sent as it has tried, and an outcome that fits them;
`JobInv` ties the threads to the job, so that those at work are exactly those of the
providers there are (`NobodyLeftOut`). The hard part of `AlertsMatchRuns` is the history:
it is rolled, cut short by kills and extended by a job that may analyse the same run
twice. `HistoryOf` is what survives all of it: a later line never tells of an earlier run
(`LongerHistory`, `PartOfHistory`, `CutIsHistory`). From it follow `GotWorseIsTrue` (what the
dashboard compares are two runs in their order) and `WorseIsTold` (the last two runs, when
they are the last two lines, are compared); `JobInv` carries what was told to the end of
the job.

*Only model-checked.* `LockReleased` and `JobEnds`: they are liveness under fairness, which the
prover cannot do. Every other property of the passing runs is proved.

Nor is it proved that the statistics of `RulesEngine` compute what their names say (`choose` is
defined by recursion): the theorems hold for whatever `Fisher` gives, and TLC evaluates it.

## Where the code and its documents differ

One of these has a run whose property states the document's words:

* *A fresh lock does not exclude* (`local_sd_takeover`). `ReleaseLock` deletes the file
  without comparing its run key; a run that was taken over deletes its successor's
  lock, and a third run finds none while the successor's is fresh (LVSD-008).

The others were met while reading. The models behave as the code does, so the
properties above are stated for that behaviour.

*Orchestration and development mode*

* An unforced simulation locks itself out: the nested acquisition finds the outer one's
  lock, the command reports busy, and the file stays.
* Two unforced `local-sd` runs that check at the same moment both go on (LVSD-008).
* The handle is released before the copy-back, which ADR-2025-015:43 puts before it.
* `LabVIEW.ini` may name a removed worktree, after a bind that failed late or an unbind
  that skipped its restore and reported success.
* The PPL copied back is looked for in the worktree; it is built in the extracted tree.
* Runs of two clones share the machine's token and extract directory (ORCH-001).
* The agent plans from the path an earlier call found, never the one that call left.
* A forced unbind clears the entries before it calls the script that restores only if
  it finds one.
* Without `-Force`, a bind still replaces another repository's entry, because
  `AutoFixOtherRepo` is on by default (BIND-005, BIND-013 and `docs/ci/dev-mode-bind.md` say it
  fails); the conflict check looks at the first entry only. `ForeignSpared` states what
  is left of the promise.
* A dry-run bind clears stale entries before it looks at `-DryRun` (BIND-004).
* A bind after one that failed between the token and the preparation reports `Already
  bound`, unprepared (BIND-002).
* A read error in the verification ends the script without a summary (BIND-007).
* Two overlapping binds can leave two entries and both report success (BIND-016).

*Rules engine*

* `guidance.py:80` reads `rule["description"]`, which `get_active_guidance` (`storage.py:337-364`)
  never returns: with an active rule the update of `AGENTS.md` ends in a `KeyError`, so no
  rule ever reaches the document.

*Bots*

* A refusal of the reviewer is posted even with `DRY_RUN` or `NO_POST`
  (`reviewer_bridge.py:436-439`).
* A push that is refused loses the session and the proposal without a word.
* `apply` reads `os.environ["GITHUB_TOKEN"]` after it has pushed the branch: without the
  variable the branch stays, there is no pull request, and a second `apply` fails.
* An `HTTPError` of the model's service ends in exit code 0 (AIC-005 RQ4).
* The lint looks at `git diff --cached` after the commit, which is empty
  (`codex_bridge.py:258`): a patch that fails the lint gets its pull request.
* `reviewer_coordinator.py` has been collapsed into one comment line and does nothing;
  `codex-2way.yml`, which the documents name, is absent.
* Proposals are found by name order, in which `p1000` comes before `p999`.

*Commit hooks*

* Where no token fits, the dropped ones are not kept in the body either
  (`enrich_commit_summary.py:122-133`, `commit-template.txt:12`).

*Test gates*

* A draft release tags the head of `main` while its artifacts are those of the CI run
  (`docs/testing/policy.md:58`).
* `rtm_utils.py:94` raises for a test path outside the repository.
* The status report exits with 1 for any gap (`strategy.md:74` lets medium and low ones defer).
* The environment gate of release branches demands `success`; the readiness script knows
  `ready`, `warning` and `blocker` for the same variables. Several outcomes are the constant `success` in `test-report.yml`.
* A measurement that is not a number passes, so does an unknown portability status;
  missing measurements do not block. No workflow calls the completion mode.
* A rerun opens incidents a second time; a failure while filing loses the links of
  those filed before.

*Comments*

* `pre-commit.yml` gives its token `contents: read`, with which a comment cannot be posted.
* The patterns `'\\.(yml|yaml)$'` of the YAML hooks match no file, and `check_yaml_ruamel` is called
  with none.
* A comment is never removed once everything passes, an older run can overwrite what
  a newer one wrote, and only the first hundred comments are looked at.
* Links that cannot be parsed are dropped by the next sync.

*Telemetry and notifications*

* `telemetry-aggregate.yml` waits for a workflow named `test`; there is none.
* With `MAX_DEPENDENCY_FAILURES=0` a regression of dependencies ends the job in its
  analysis, and its alert is never sent.
* A second analysis of the same QA run reports a step that failed once as recurring
  (`docs/telemetry.md:149-150`), and hides a regression.
* A line cut short makes every rendering raise until it has rolled out of the history.
  A limit of 0 means none; with a limit of 1 nothing is compared.
* `SMTP_PORT` or `SMTP_TIMEOUT` that is not a number (`email_notifier.py:41`, `:54`) keeps every provider
  from being told. A lost answer makes a message arrive twice.
* `telemetry-publish.py:68` uses a format specification that Python refuses.

## Abstractions and what they leave out

*All modules.* Paths, keys and file contents are model values or the run they come
from. Logging, messages and the JSON layouts are left out. One LabVIEW version.

*LocalSd.* Children are not modelled beyond their effect; a killed run's child does not
continue. Time is one clock for all processes.

*SdPplLvcli.* `LabVIEW.ini` has at most one entry, of one bitness: `OutcomesCovered` shows
that forced binds and reverts keep it so when they run alone. Binds and reverts are
single steps, so two of them never interleave inside; `DevMode` covers that. Every run has
a worktree path of its own (two clones could pick the same one within a millisecond of
the stamp). The handle excludes other handles as `FileShare.None` does on Windows. `Crash`
also stands for an exception inside the `finally` block, which leaves the process. A zip
cut short by a failure counts as its writer's. A PPL build that fails leaves no library.

*DevMode.* Writes are atomic, except that reading and writing are separate. Paths are equal
or different; that one may be a prefix of another is left out, and so are blank entries and
a file without a `[LabVIEW]` section. What the VIs `PrepareIESource` and `RestoreSetupLVSource` do to `LabVIEW.ini` is
taken from how the scripts use them: they touch the entry of their target only. The
agent executes one phrase per call; two of its guards (a foreign `expected_path`, a
`skip` status) cannot meet a summary the binder writes and are left out, as is
`--allow-stale-summary`. A kill of a call stops its child as well.

*RulesEngine.* One test per failure and one flakiness threshold; guidance texts are the pair
they are about. The number of active rules in the export is left out. The package under
`docs/codex_rules` is the same code and is not mapped twice.

*ChatOps.* Comments, patches, model answers and pages of files are model values with the
features the code judges. The instance has one thread, the proofs any number of them. The
service's own consistency is assumed.

*CommitHooks.* One developer, one clone: hooks of two commits in one clone exclude each
other by the lock of the index.

*TestGates.* `ADR_LINT` stands for the document lint and the link check; the step that runs
the tests always succeeds or fails as a whole. A change is to one cell, one file or the
header of the matrix.

*PrComments.* The contents of a comment are the set of problems it names. Pages after the
first are never asked for and not modelled.

*Notify and TelemetryAlerts.* A run is judged by whether it is worse than another; the
numbers behind that are left out. A mail refused for a part of its recipients counts as
delivered, as the code returns.

*Not modelled.* The table of components in `PROJECT.json` has the reason for each. The
distribution, package, version and format tools, the documentation tools and
`telemetry-publish.py` are sequential transformations of files; the remaining CI workflows
are declarative; the LabVIEW sources are binary.

## Plan

What is left, in order of importance, one module (with its instance and run) each:

1. **LocalSdPpl**: `Run-LocalSd-Ppl.ps1` composed with `LocalSd`: it takes the zip of a run
   whose lock has been released, binds, builds and writes the handshake; abstractly, a
   handshake names inputs of one run. Hazards: another run between release and
   extraction, a bind that is never unbound.
2. **DevModeTask**: `task-devmode-bind.ps1`, which binds a worktree and removes it in its
   `finally` block, over `DevModeOutcomes`.
3. **InvocationLog**: the x-cli append with retries and its in-process lock, against an
   abstract log: every accepted entry at least once, none torn.
4. **CliCache**: `resolve-repo-cli.ps1`, a publish cache filled without a lock: a path handed
   out is a complete publish of the right commit.
5. **OllamaDriver**: the turn loop with veto, timeouts and give-up, and its termination.
6. **PackageBuild**: the sequence of `package-build`, as far as its steps can fail apart.

Each of these modules takes its type invariant and its main safety invariant as theorems
with it.
