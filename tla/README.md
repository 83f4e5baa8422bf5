# TLA+ models of tripwire

tripwire runs AI coding agents against a *project-tracking* directory of YAML
files. There is no server that owns the state: every CLI verb, the detached
runtime monitor, the pull-request watcher and the web UI are processes of their
own that read and write the same files, separated only by `flock`s. These
modules model the parts in which that goes wrong silently: who may change a
session's status, what the events log then says of it, what becomes of the agent
and its session when the process that watches it ends, what a verb of the session
lifecycle leaves behind when it stops half way, what the pull-request watcher
remembers, what the gate of one session makes of the other sessions of the project,
what writers of one shared file do to each other, what a merge between projects
may lose, and how an open page of the web UI keeps up with the files. Around these stand the sequential parts they rest on, as operators: the
validators and the run around them, the definition of workflows, the configuration and
preparation of a spawn, the migrations, and the algorithms on the graph of issues.

Paths below are relative to `src/src/tripwire/` unless they start with `src/`.

## 1. Inventory

| component | state it keeps | operations | talks to |
|---|---|---|---|
| **Workflow executor** `core/workflow/transitions.py` | none of its own; the instance file's `status`, `current_status_instance`, `engagements`; the instance lock | `execute_transition`, the gate, side-effect scripts, post-write hooks | events log, locks, session store, graph cache, scripts as subprocesses |
| **Workflow definition** `core/workflow/{loader,schema,registry,instance_io}.py`, `templates/workflow.yaml.j2` | statuses, routes, controls, side effects (read-only) | load, validate, read and write an instance | executor, drift, validators |
| **Events log and drift** `core/events/log.py`, `core/workflow/drift.py` | one JSONL file per day, one lock each | `emit_event`, `read_events`, drift report | executor (visit numbers, prompt checks), drift |
| **Locks** `core/locks.py` | lock files | `project_lock` with bounded wait | everything that writes |
| **Session store** `core/session_store.py` | `sessions/<id>/session.yaml` | whole-object load and save, no lock | all verbs, monitor, hooks |
| **Post-write hooks** `core/workflow/post_write_hooks/` | – | close the engagement (second save), reset acks, audit, telemetry | executor |
| **Acks, prompts, heuristics** `_internal/`, `core/jit_prompt_state.py`, `core/workflow/prompt_checks.py` | ack markers under `.tripwire/` | fire, acknowledge, check | the gate |
| **Runtime monitor** `runtimes/monitor*.py` | read offset and buffer, cost, push failures, fired set, timers, poller | tail the agent's log, decide, signal, stamp, move, inject; idle reaper; exit flush | agent process, session file, `plan.md`, executor, `gh` |
| **Runtimes and preparation** `runtimes/{base,claude,codex,manual,bg_task,prep}.py`, `cli/session/spawn.py` | worktrees, branches, draft PRs, pid | prepare, start, pause, abandon | git, gh, session store, executor |
| **Session lifecycle verbs** `core/session_{complete,abandon,reopen}.py`, `cli/session/*.py` | – | complete, abandon, reopen, pause, review | executor several times, gh, issue sweep |
| **Issue sweep** `core/status_contract.py` | issue files | move each member issue forward step by step | executor |
| **PR watcher** `core/pr_watcher*.py` | fired sets (memory), pid file, `state.json` | poll PRs, follow up, pause, re-engage | GitHub, executor, spawn |
| **Key allocator, project store** `core/{key_allocator,store}.py` | counters in `project.yaml` | allocate, load, save | UI, init, link |
| **Graph cache** `core/graph/cache.py` | index file with file fingerprints and edges | update, rebuild, ensure fresh | every save |
| **Workspace sync** `core/workspace_sync.py`, `cli/workspace/` | a project's nodes with the commit they were last in step with, the workspace's tree and commits, merge briefs | copy, fork, promote, pull, push, merge-resolve | git, node store, project lock of the workspace |
| **Validators, linters** `core/validator/` | none; they read statuses, artifacts, branches, reviews and `origin/main` of the whole project | read-only checks, findings with or without a file | the gate, which filters the findings by file; CLI |
| **Web UI server** `ui/` | observer, debouncer and event queue, WebSocket registry | mutations under `project_lock`, broadcast of what changes in the files | executor, stores, pages |
| **Web front end** `src/web/src/lib/` | a page's socket and its cached queries | connect, reconnect, ask again for what an event names | the server's sockets and GET routes |
| **GitHub/git helpers, rendering, views, docs** | none | I/O and formatting | – |

The hard behaviours, and what correctness means for each:

* *Executor.* Several processes validate and move the same instance. Correct:
  the saved statuses form one chain of declared routes; the log says what was
  saved, in order; the caller's answer agrees with the file; every request ends
  although others die in the lock, orphan scripts or hang on the index lock.
* *Monitor.* Two threads of one process share an offset, a buffer and a policy
  object without a lock, daemon threads die with the process, an agent is
  stopped and must be continued by a thread that may be gone. Correct: no line
  is missed, an over-budget session ends settled, nobody stays frozen.
* *Lifecycle verbs.* Long sequences of side effects around a move that may be
  refused. Correct: a refused verb leaves nothing half done, a retry completes.
  An agent that runs is one the session knows of.
* *Gate.* Validators look at every session, on statuses that the move is about to
  change. Correct: a session is judged by what is its own, and what is completed has
  the records that were asked for on the way.
* *Watcher.* Actions marked done before they are tried, memory lost on restart.
  Correct: one daemon at a time, and what counts as told has been told.
* *Graph cache.* Fingerprints taken after the parse, of files nobody locks.
  Correct: an index that is wrong looks wrong, so that the next use repairs it.
* *Workspace sync.* Projects that merge through a repository which moves while they
  compare, and a sha that is *declared*. Correct: no edit is lost that nobody has
  looked at, on either side; what is in step merges without a conflict.
* *Live view.* Events gathered by timers, queued, sent socket by socket, for pages that
  come, go, lose their connection and survive the server. Correct: what a page shows is
  what is in the file, or a reason to ask for it again is on its way.
* *Allocator, UI.* Two locks and some writers that take neither. Correct: no key
  twice, no phase the validator has refused, no save that undoes another.

`PROJECT.json` lists every component with its status and every hazard at its
line, with the properties that cover it or the reason none does yet.

## 2. Modules

| module | models |
|---|---|
| `CodingSession` | the shipped coding-session workflow of `templates/workflow.yaml.j2`: statuses, routes, scripts, which routes need prompts and checks. Constants only; all systems with sessions are run on it. |
| `StatusLedger` | abstract specification of the executor: one status, a ledger of declared moves. |
| `TransitionExecutor` | `execute_transition` run by any number of processes. Implements `StatusLedger`. |
| `TransitionExecutorProofs` | the theorems about its status, its log, its refinement, and about answers, lost events, scripts and engagements. |
| `RuntimeMonitor` | one `MonitorRunner` with its tail thread, timer and poller, the agent and the files they touch. |
| `StatusContract` | the tables of `core/status_contract.py`: lifecycle, allowed issue statuses, sweep targets. |
| `SessionLifecycle` | queue, complete, abandon, reopen, spawn, sweep and transition as sequences of effects around one executor move, with the scripts of the routes and the member issues. |
| `SessionGates` | what the validators of the session's routes see in a project with several sessions that share issues, and the gate's scope filter. |
| `WorkflowDefinition` | what the loader makes of a workflow definition, what the well-formedness checks find in it, and what reads its routes. Operators only. |
| `InstanceFile` | the files of workflow instances: read, written back, found, checked, and which lock guards them. |
| `SpawnSession` | worktrees, branches, agents and the unlocked save of `session spawn`, with resume, pause, abandon, cleanup and transition. |
| `SpawnSessionProofs` | the theorems about it. |
| `PRWatcher` | the pull-request daemon: pidfile, ticks, fired sets, the four tripwires and what they make the executor do. |
| `SessionProofs` | the theorems about `PRWatcher` and `SessionLifecycle`. |
| `GraphCache` | the graph index: `full_rebuild`, `update_cache_for_file`, `ensure_fresh`. |
| `GraphCacheProofs` | the theorems about it. |
| `ProjectStore` | the writers of `project.yaml`, the executor on the phase among them, and of one issue file. |
| `ProjectStoreProofs` | the theorems about it. |
| `WorkspaceSync` | projects that copy, fork, promote, pull, push and merge the nodes of a workspace. |
| `WorkspaceSyncProofs` | the theorems about it. |
| `Migration` | the five `project migrate` commands on the files of a project, and what an interrupted one leaves. Operators only. |
| `SpawnConfig` | the layers of spawn configuration, routes, and the command lines of the runtimes. |
| `Preparation` | readiness and strict checks, what preparation writes into worktrees, the order in which a spawn may fail. |
| `ProjectChecks` | the validators that look at a project's files alone, and the lints, as sets of findings. |
| `HeuristicMarkers` | which findings are heuristics, the markers that make them quiet, `heuristic reset` and `gc`. |
| `LiveView` | the file watcher, debouncer, hub and tasks of the UI server, and the sockets and queries of its pages. |
| `ObserverProofs` | the theorems about `LiveView` and `RuntimeMonitor`. |
| `ProjectDiscovery` | which projects the UI shows and what an id in a URL stands for: search, deduplication, index, cache, what the routes remember. Operators only. |
| `SequentialProofs` | the theorems about the parts in which nothing runs at once: `WorkflowDefinition`, `InstanceFile`, `SpawnConfig`, `HeuristicMarkers` and `Migration`, which have operators and no steps, and `SessionGates`. |
| `Validation` | a run of `validate_project`: loading, `--fix`, the choice of checks, markers, `--select`, exit code; and the gate's run. |
| `DependencyGraph` | cycles and critical path of `blocked_by`, `--select` expressions, orphans. |
| `MC...` | an instance of each system for TLC: routes, scripts, contents, symmetry. |
| `...Cases` | facts about the modules without steps, as assumptions that TLC evaluates; the `MC` modules extend them (`MigrationCases` in `project`, `SpawnConfigCases` and `PreparationCases` in `spawn`, `ValidationCases` in `gates`, `DependencyGraphCases` in `graph`; those of `ProjectDiscovery` stand in `MCLiveView` itself). |

### TransitionExecutor and the code

A process goes through `pc`: `idle`, `asked` (the pre-lock load is done,
`transition.requested` is next), `waiting` (polls the instance lock), `locked`,
`gate` (has loaded the instance under the lock into `snap`), `effects` and
`script` (side-effect scripts), `hooks` (status saved), `report` (its
`transition.completed` is next), `refuse` and `timedout` (a `transition.rejected`
is next). Each action is one access to what processes share:

| action | code |
|---|---|
| `Request`, `LogRequested(Fails)` | the load before the lock and `transition.requested` |
| `Acquire`, `AcquireTimesOut` | `project_lock(...)`, ten seconds of polling |
| `Load`, `Raises` | the reload under the lock; an exception leaves through the `with` |
| `GatePasses`, `GateRefuses` | reachability, JIT prompts, tripwires, prompt checks, artifacts |
| `RunScript`, `ScriptSucceeds`, `ScriptFails` | `_run_declared_side_effects`: `subprocess.run` without timeout |
| `Commit`, `CommitRaises` | visit number from the log, `save_session`; the graph-cache lock may time out *after* the file is written |
| `Hooks` | `close_active_engagement` with its second save, `reset_acks_if_requested` |
| `Report`, `Refuse`, `InnerEmitTimesOut`, `LogTimeout(Fails)` | the emits inside the `try`, and the `except LockTimeout` after it |
| `Crash`, `OrphanExits` | SIGKILL: the flock is freed, the script goes on |
| `InvokeCheck`, `AckPrompts` | `tripwire prompt-check invoke` and `--ack` by an agent |

Reachability, acknowledgements and prompt checks are computed from the state; the
verdicts of tripwires and of the artifact check read data outside the model, so
an open gate may still refuse. `move`, `moves` and `Event.move` are history that
no guard reads. `transition.requested` and `transition.rejected` rows are not
stored because no code reads them back; that they are emitted, and that the
emit can fail, is.

An instance may start in any of `StartStatuses` with an empty log. A project
older than the log (it came with v0.9), or a clone of one that keeps `events/` out
of git as this repository does (`src/.gitignore:69-73`), is exactly that.

### RuntimeMonitor and the code

The agent appends lines to its stream log (`out`); the tail thread reads a chunk
(`Read`), keeps offset and chunk (`Keep`), takes line after line through the
policy (`Take`, with `Process` for `RuntimeMonitor.process_event`) and executes
the actions it is handed. Actions are sequences of steps: signal (`Kill`,
`Freeze`), load and save of the session (`Load`, `Stamp`, `StampRaises`), a move
through the executor (`Transition`, `TransitionFails`), a note in `plan.md`
(`Load`, `Inject`), threads (`StartTimer`, `StartPoller`). The main thread is
`runner`: `watching` until the agent is dead (`PidDead`), its time is up
(`OutOfTime`) or the log is silent (`Reaps`, `Reaped`); then it flushes the log
**with the code and the variables the tail thread may still be using**, makes its
exit checks, joins for two seconds (`Joined`, `JoinTimesOut`) and is gone, and
every daemon thread with it.

Abstractions, each of which a reader should know:

* What CPython runs between two calls that give up the interpreter lock is one
  step: the thread switches that matter are the ones around file I/O, signals,
  subprocesses and waits. Setting the offset and appending to the buffer is
  such a stretch.
* A line carries one fact; an event of the agent that carries several is as many
  lines. The kinds are the ones the tripwires tell apart. A `pr` line is a
  `gh pr create` whose project-tracking branch has no commits.
* Tripwires that only log (key-file drift, the push *warning* threshold) are left
  out. `ResumeProcess` is emitted by no tripwire, so `_do_resume` is not an action.
* A clock tick is ten minutes. Whatever is due within seconds happens before the
  next tick (`Settled`): the one-second polls, the tail's poll, a running
  agent's death of a SIGTERM. A poll that finds nothing changes nothing and is
  left out.
* The executor's move is atomic here; `TransitionExecutor` is its model. The
  session has one engagement; `plan.md` exists.
* Checks of the PR advance only while somebody polls them; others move the
  session only while the agent runs.

### SessionLifecycle and the code

A caller runs one verb at a time; `verb[p].step` says which of its effects is
next, `i` which issue the sweep is at.

| step | code |
|---|---|
| `queue`, `move` of `Queue`, `Promote` | `cli/session/queue.py`: readiness, the move of the issues, the move of the session |
| `Complete`, `LoadIssue`, `AdvanceIssue`, `StopIssue`, `EndSweep` | `complete_session` and `sweep_issues`: the target of the sweep, each issue step by step along `_LIFECYCLE_ORDER`, stopping at the first refused step |
| `Abandon`, `ClosePR`, `RemoveTrees` | `abandon_session`: best effort, each effect may fail and is passed over |
| `Reopen`, `ReopenChecks`, `Spawn`, `Sweep`, `Transition` | the other verbs up to their move |
| `MoveAcquires`, `GateAllows`, `MoveRefused`, `MoveTimesOut` | the executor: instance lock, gate with the three validator checks of these routes, refusal |
| `NextScript`, `SweepScript`, `FlipToReady`, `FlipToDraft`, `CloseOpenPRs`, `RemoveWorktrees`, `OtherScript`, `ScriptWorks`, `ScriptFails` | the side-effect scripts of the route, in order; `broken` are those that always exit non-zero |
| `Commit`, `Tidy` | the save of the new status; `complete` then loads the session again and removes its worktrees |

A sweep of the issues takes part in the same locks and may be interrupted after
any issue. Issues move one step at a time along the issue-closure workflow. The
worktrees of the session are one flag, its branches have one pull request. What
a gate reads outside the model is a verdict it may return at any time.

`history` says what has gone half way and appears in no guard: issues that were moved
back or that a sweep has left (`behind`), a teardown without its move (`torn`), a
teardown that left something (`leak`), the route from `paused` to `completed`
(`bypass`), a move to `executing` without a spawn (`bare`), a session sent back to the
queue with what it had (`back`), a complete whose removal of the worktrees, or whose move,
falls into what the session does next (`late`).

What the properties need of a workflow is stated as two assumptions, which the code relies
on and checks nowhere: every route takes the issues along or asks no more of them than
the status it leaves (`FloorAssumption`), and only the routes to the terminal statuses
tear down, those to `abandoned` from a launched status all of it (`TeardownAssumption`).
TLC evaluates both on the shipped workflows.

### SessionGates and the code

`SessionLifecycle` has one session and follows its verbs step by step;
`SessionGates` has several, takes a move as one step and looks closely at the gate.
A validator is an operator with the name it has in `core/validator`, from the
sessions there are to those it complains about: a session, an issue, or `Project`
for a finding whose path belongs to no instance. `Complaints` is `validate_project`,
`InScope` is `_in_scope_instance_ids` together with what passes the filter for want
of an owner, `Refusing` the gate. That the validators take the set of sessions as an
argument is what lets a property ask how a session would fare *alone*.

| action | code |
|---|---|
| `Transition` | `execute_transition`: the gate on the statuses there are, then the route's sweep, then the status; a sweep that fails half way keeps what it reached and aborts the move |
| `CompleteSweeps` | `complete_session` up to its move: its own checks of merges, records and review, then the sweep |
| `Review` | `session review`: `review.json` and `verified.md` of every member issue |
| `Prepare` | `session spawn` up to its move: the branch `proj/<slug>`, which may stay without a commit |
| `Merge`, `Publish`, `Writes`, `WritesDoc`, `LosesDoc`, `IssueMove` | GitHub, `git fetch`, agents and people |

Artifacts are `none`, `poor` (there, but not what a validator of its contents asks
for) or `good`; `plan` and `work` stand for the two and four artifacts with the same
producing phase. A refused move changes nothing and is no step. `why` is history.

### SpawnSession and the code

`session spawn` is `look` (load, status check), one worktree after the other
(`git worktree add -b`, which refuses an existing directory or branch), draft pull
request, `start` of the agent, `save` of the session loaded at the beginning, and
the executor's move. `pause`, `abandon`, `cleanup` and a plain transition share
the file, the directories, the branches and the processes with it. The n-th agent
has pid n. A process that stops anywhere leaves what it has made. The executor is
one step and may refuse.

### PRWatcher and the code

`watch start` is two steps (look at the pidfile, write it), as is `watch stop`. A
tick is a snapshot of the sessions (`Tick`), one look at a session after the other
(GitHub may fail at each request), then the collected actions in order; each may
fail by itself. Killing a daemon loses what it remembers and, while it rewrites
`plan.md`, the follow-ups. Left out: reuse of pids, a second project-tracking
pull request, pull requests closed without a merge, texts and rate limits.

### GraphCache and the code

An update is parse, then mtime, then hash, then save, as in
`update_cache_for_file`; a write may fall between any two. `ensure_fresh` looks at
the index without the lock and then repairs file by file or rebuilds everything,
from `_INCREMENTAL_BAILOUT` changes on: 2 in the run, 5 in the source, so that two
files are enough to take both ways. Contents are what they reference and whether
they parse; the hash is the content. `why` is history: which files were written
while they were fingerprinted, and since when.

### ProjectStore and the code

`NextKey`, `Link`, `Advance`, `FixLoads`/`FixLocks`, `Patch`, `AskMove` and
`MoveLoads` begin the calls; `Truncates` and `Fills` are `Path.write_text` of
`project.yaml`, which everybody but the UI uses; the UI replaces it in one step
(`AdvanceSaves`, `Reverts`). `Dies` frees locks and leaves the file as it is, which
may be empty. `Counter` is what `--fix` makes of an empty file. The rewriting of an
issue is one step; a file that is being rewritten is empty, never half there
(it fits one buffer); the workspace's half of a link is left out.

`project.yaml` is also the one instance of the phase-advancement workflow.
`MovePhase` and `MovePhaseSaves` are the executor's load and save of it, through
`InstanceFile` and without `project_lock`. Executor and UI put a new file in place of
the old one (`Replaces`), so a writer that has just truncated the old one fills a file
that nobody will ever read (`buried`).

### WorkflowDefinition, InstanceFile and the code

Nothing runs in these two: their operators have the names of the functions of
`core/workflow/loader.py`, `schema.py`, `instance_io.py`, `core/status.py` and
`check_instance_shape_conforms`, and take what those take, the parsed YAML of a
workflow or the text of an instance. A finding is its code and what it is about.
Instances of them meet the other modules as assumptions that TLC evaluates, so that a
wrong operator fails a run:

* in `MCTransitionExecutor`, `ShippedDefinition`: the routes of `CodingSession`, written
  as the raw definition they are in the template, are accepted without so much as a
  warning, and `Moves` of them is the relation the executor runs with.
  `SearchIsReachability`: `reachable_statuses` is the least closed set, for every graph
  on three statuses. `AcceptedAnyway`: definitions the checks let pass (see below).
* in `MCProjectStore`, `PhaseFileIsUnguarded`: neither the executor's lock nor `validate`
  cares for the file the phase is in. `MovesSettle`: a move leaves a well-formed file
  and repeating it changes nothing, for every small file.

Left out: YAML, the catalogues behind `Known`, and what only the UI reads (triggers,
emits, artifacts, labels).

### WorkspaceSync and the code

Each command is a listing of the nodes followed by one step for each of them, as in
the loops of `cli/workspace/`: `Pull`, `PullNode` or `PullSkips`, then
`PullDrafts` for what conflicts; `Push`, `PushCompares`, then `PushRefused` or
`PushLocks`, `PushWrites`, `PushCommits` and `PushNotes`. `Status` and `Merged` are
`merge_nodes`, with the two ways in which `_normalize` and the readers see less than
there is: the body is never read from the workspace (`Unread`), and a source with
a line range never equals its own YAML (`Reshaped`). Every edit makes a value nobody
else makes, which is the case in which a lost edit is lost for good. Whoever resolves
a brief is assumed to have looked at what it says; the sha that is then noted is that
of today. `copy` and `pull` note the commit they have read before the node: when
somebody commits in between, the sha is an older one (`Stamps`). Links between projects and the workspace's registry are left out.

### LiveView and the code

A change of a file is in `fs` until the observer thread takes it (`Handle`), with a timer
of the debouncer until that runs (`schedule`, `_fire`), in `queue` until the broadcaster
takes it (`broadcast_events`), and then goes to one socket after the other (`Send`). A
page connects (`Mount`, `Accept`, `Add`, `onopen`), asks the GET routes for what it shows
(`Serve` reads the file, `Show` delivers it) and again for what an event names
(`onmessage`) or, after a connection it has lost, for everything (`onclose`, `onopen`).
The server stops (`Stop`, `lifespan`), dies (`Crash`) and is started again (`Start`);
queue, timers and sockets go with it.

What a reader should know: a timer that has run out when its key is scheduled again
cannot be cancelled any more (`schedule` with `late`), takes the new event and strikes
the new timer off. A key is an entity, or a channel of process events, which the emitter
renames into place: `Told` says which of `created` and `moved` the observer sees. A file's
content is the number of times it was changed. `missed` is history: it records for each
page the keys whose change it will not be told of, and is cleared when the file is read
after that. Timers, backoff and the time a query counts as fresh are free choices.
External are watchdog, asyncio, uvicorn and the page's query cache, as they are used.

### ProjectDiscovery and the code

Operators on what the server's process keeps (`Fresh`): the summaries with the time they
were found, the index, whether it is pinned, and what the routes have resolved.
`discover_projects` looks below the configured roots and at what was in the index, keeps
one directory for each name and prefix (`_deduplicate_summaries_by_identity`) and replaces
the index by what it has found. `get_project` and `find_project_by_identity` look again
when they find nothing; the routes below a project (`_resolve_project_dir`) remember their
answer, also a "no", among 64 of them. The cases in `MCLiveView`: one summary for each
identity in whatever order directories are met; a pinned server shows nothing else; what
was seeded is forgotten with the first id that there is not; the cache lasts 60 s; a route
that has said 404 goes on doing so when the project is there.

### Migration and the code

A project is the set of its files, each with a root (the flat one of old, `docs/` for
issues, `instances/`), a kind, an entity and an entry. `MoveEntities` and
`_migrate_issue_docs` are the two phases of `migrate storage`, one unit (a `git mv`)
after the other; `Interrupted` is every project a run can stop at. The renaming of locks
and acknowledgements is joined from segments, as the code joins them with dashes.
`MigrationCases` runs all small projects through it.

### SpawnConfig, Preparation and the code

A layer is a function on the leaves it sets; `load_resolved_spawn_config` merges the
five in order and applies what is pinned afterwards. `SpawnConfig` ends with what
`claude`, `codex` and the manual runtime make of it. `Preparation` takes a session with
its surroundings as one record: which checks fail, at which stage a spawn ends and what
is there then (`SpawnSession` has the same stages as steps of two callers), which files
preparation writes, and when it leaves those it finds.

### ProjectChecks, HeuristicMarkers, Validation and the code

A check is the set of its findings in the project that `load_context` makes of the
files; of a message there is what it names and counts. A body is a sequence of lines
that open or close a fence, begin a heading, refer to something or say a phrase.
`Validation` is the run: files that do not load are findings or, in two cases,
exceptions (`Crashes`); `apply_fixes` is `--fix` on what was loaded before;
`declared_validator_ids` and `validator_checks_for_ids` are the choice of checks;
`_apply_heuristic_mode` and `Marked` are the filter and what it writes. The checks of
`SessionGates`, `WorkflowDefinition` and `InstanceFile` come in as `elsewhere`.
`ValidationCases` has one small project, everything that can be wrong with it one at a
time, and sequences of runs.

### DependencyGraph and the code

Issues are numbers in the order of their keys, a graph is what each is blocked by. The
depth-first walk with its stack of frames, Kahn's queue and the relaxation over it are
as in `core/graph/dependency.py`. `DependencyGraphCases` compares them with what they
are for: every graph of three issues (a cycle is found exactly if there is one, not
every one is), every order of four (no chain is longer than the critical path), every
walk of up to two steps (`ID+N`). This module has `RECURSIVE` operators and no theorem.

### Where they meet

`TransitionExecutor` proves that the executor's *own* saves form one chain.
`RuntimeMonitor`, `SpawnSession` and `ProjectStore` have the writers that save whole
sessions and issues outside the instance lock; `OneChain` is therefore a theorem
about processes that only use the executor, and the properties of the other
modules name the unlocked writers among their exceptions (`why.stale`,
`why.unset`, `why.unmoved`). `SessionLifecycle` and `SessionGates` share the tables
of `StatusContract`, and the routes of `CodingSession` with the executor.
`SessionLifecycle` has the executor as lock, gate,
scripts and commit, and what its theorems need of the routes are assumptions that hold of
`CodingSession`; `SpawnSession`, `PRWatcher`, `RuntimeMonitor` and
`ProjectStore` as one or two steps.

## 3. Runs

| run | instance | checks |
|---|---|---|
| `executor` | 2 processes, 3 requests, 1 crash, 1 lock timeout, 1 prompt check; start in `in_review` or `completed`, five targets | all properties of the executor, the refinement and that requests end |
| `monitor` | 2 lines of 5 kinds, deadline 2 ticks, idle and resume 1 tick, 1 fault, abandonment from outside | all properties of the monitor and that it ends |
| `monitor_frozen` | 1 line, the shipped order of thresholds (10, 30 minutes) | *violation*: an agent stays stopped for good |
| `lifecycle` | 2 callers, 3 verbs, 1 issue, shipped or working scripts, 1 outside move, 1 fault; start in `planned`, `executing`, `in_review`, `verified`, `completed` | what completed, abandoned and live sessions may be relied on for |
| `lifecycle_abandon` | 1 verb, the scripts as shipped | *violation*: an abandon tears down and is refused |
| `gates` | 2 sessions, 2 issues, one of them shared, one session with an allocated key; 2 moves, 2 calls, 1 edit; four pairs of starting statuses | the gate judges a session by what is its own; what is completed has its records |
| `spawn` | 2 callers, 5 verbs, 2 worktrees, 3 agents, 1 fault | doubled, unrecorded and surviving agents, sessions that cannot be spawned |
| `watcher` | 2 lives of the daemon, 1 session, 1 fault | one daemon, one comment per life, follow-ups stay, fired means told |
| `graph` | 2 processes, 2 files, 3 contents, 2 writes, 2 calls | a wrong entry is visible; a call that returns has repaired what nobody touched |
| `project` | 2 processes, 4 calls (moves of the phase included), 1 crash, 1 outside write of an issue file | no key twice, no refused phase, no save undone, but for the named races |
| `live` | 1 page opened twice, 1 key (an entity or a channel), 2 changes, 1 break, stop or crash | what is stale is on its way to the page, and the page catches up |
| `sync` | 2 projects, 1 node of 3 fields, 2 edits, 3 commands, 1 fault | no unseen edit lost upstream or here, what is in step merges clean |

What the properties say (each is stated in full above its definition):

* `MovesFormOneChain`, `ImplementsLedger`: two concurrent requests are never both
  validated against the same status. The in-lock reload is what makes this true.
* `LogTellsMovesInOrder`, `EveryLostEventHasACause`,
  `VisitNumberReusedOnlyAfterLoss`, `DriftBlamesOnlyDoubleLoss`: save and event
  are two steps, so events get lost. They are lost only through a crash or a
  timeout, never reordered or invented; a visit number is only given twice after
  a loss, and drift accuses a well-behaved session only after two.
* `AnswersAgreeWithTheFile`: `ok` means saved and logged, `refused` means nothing
  saved, and after an exception or a `lock_timeout` nothing was logged. That a
  `lock_timeout` means nothing was saved is not so (see the disagreements below).
* `ScriptOverlapNeedsCrash`, `ClosedWhenTerminal`, `EveryRequestEnds`.
* `LinesAccounted`: the flush races the tail thread over one offset and one buffer.
  While the runner watches, each line has been counted once and in order, and no line
  of a dead agent escapes unless the join timed out. During the flush a line *may* be
  handled twice, which is why the first half stops there.
* `SleeperHasAWaker`, `WokenForAReason`: as long as the runner lives a stopped
  agent has a timer or poller whose event is not set, and neither wakes it early.
  It rests on the monitor suspending at most once.
* `SurvivorsAreKnown`, `OverrunSettledUnlessHit`, `RunnerEnds`: what is left when
  the runner is gone. A runner leaves a live agent only at its deadline (no
  signal is sent then, although a comment in `templates/runtime/defaults.yaml`
  says the runner sends SIGTERM) or with a SIGTERM pending. A session over
  budget is settled unless one of three named things hit it.
* `FloorKept`: member issues are never behind their session but in three ways: somebody
  moved one back, the session went from paused straight to completed, or the first step of
  a sweep was refused, which it reports to nobody.
* `CompletedMeansMerged`, `AbandonedLeavesNothing`, `LiveSessionHasTrees`: what the
  gates and the teardown together promise. The exceptions are the half-done
  verbs: a teardown that did not end in its own move makes the merge check pass
  over worktrees that are gone; and two long ways round that every check lets pass: a
  session that was launched, paused and queued again is abandoned by a route without
  scripts and keeps worktree and pull request, and a `complete` removes the worktrees of
  the session it loads *after* its move, which somebody may have reopened.
* `OthersDoNotDecide`: compared with being alone in the project, a session is refused
  more only by `no_orphan_proj_branches`, whose findings have no file, and allowed
  more only by `done_implies_session_completed`, when another owner of a completed
  issue is done with it. Sharing an issue changes no other verdict.
* `CompletedHasRecords`: what the gate has seen still holds when the session is
  completed and after it, although the sweep, other owners, reverts and refused
  completes come in between; the four ways around it are named. Three of them occur in
  the run; `why.byhand` takes more edits than the run has, and is there for the theorem.
* `FreshAgentOnce`, `AgentsAreRecorded`, `QueuedIsSpawnable`,
  `AbandonedStopsItsAgent`: what keeps two callers from starting two first agents
  is that git refuses an existing branch; nothing else does. A failed draft pull
  request is enough to leave a queued session that cannot be spawned.
* `SoleDaemon`, `CommentsPerLife`, `FollowUpsStay`, `FiredIsTold`: the pidfile keeps
  a second daemon away unless two starts overlap or a stop removes the pidfile of
  a live one; fired marks may lie only after a failed request or a lost plan.
* `StaleIsVisible`, `EnsuredMeansFresh`: an entry is wrong invisibly only after a
  write between parse and fingerprint, or with an mtime that is not newer.
* `KeysHandedOutOnce`, `PhaseWasAccepted`, `SavesKeepEachOther`: lock holders never
  undo each other; link, unlink and `--fix`, which save what they had loaded
  before they had the lock or without it, may, and so may the executor and the UI
  on one issue, whose locks are different ones. A move of the phase by the executor can
  put back an old counter, bury a new one, and reach a phase no validator has looked
  at; each is an exception by name, and there is no other.
* `StaleIsOnItsWay`, `CatchesUp`: a change is never dropped between the observer, the
  timers, the queue and the sockets, whichever timer takes it, and a page that has lost
  a connection makes up for all of it. What a page is not told of has five causes, which
  `missed` records: the file changed before its first connection was in the hub (a page
  only makes up for connections it has *lost*), or before a new one was; while its first
  answer was awaited (an invalidation joins it); while nobody looked; or it is a process
  event whose rename is dropped. If the server stays up, an open page comes to show what
  is in the files, but for those.
* `NothingLostUpstream`, `NothingDroppedHere`, `InStepMergesClean`: push compares
  without the lock and writes with it; `merge-resolve` notes a commit newer than the
  brief that was resolved, `copy` and `pull` one older than the node they have read.
  Values of the workspace get lost in these two ways, or where they are the body; and in a project only when the copy is edited
  while the command runs. A copy whose workspace has not moved conflicts with it in
  nothing but a body and a reshaped source.

Several of these properties have exceptions ("unless ..."). Each is a history
variable that records one concrete interference, so a property says: what is
promised can be lost in these ways *and in no other*. Its mutant, listed in
`PROJECT.json`, is a bug that would break it without any of them.

**Bounds.** Two processes and one crash are what the executor's races are made of:
a race has a process inside the lock and one around it, and a third only repeats
the second. Three requests are needed to lose an event, make a visit with a reused
number and observe it; one fault and one crash together give the double loss that
drift mistakes for a bypass. The theorems remove the bounds for every
safety property of every run; only liveness and the cases rest on bounds. In the monitor, two lines make the shortest sequences that trip a
second wire (budget after a poll, push and its failing result), and leave one line
for the flush to fight over. Idle and resume thresholds of one tick with a
deadline of two make reaper, timer and deadline fall due together, so that TLC
tries every order of them; `monitor_frozen` keeps the shipped order instead.
Every bound is a constant used in a guard (`MaxRequests`, `MaxCrashes`,
`MaxFaults`, `MaxFailures`, `MaxBreaks`, `MaxChecks`, `MaxLines`, `MaxRuntime`, `MaxVerbs`, `MaxOutside`,
`MaxAgents`, `MaxStarts`, `MaxTime`, `MaxWrites`, `MaxCalls`, `MaxCount`, `MaxEdits`,
`MaxCommands`, `MaxMoves`, `MaxChanges`, `MaxMounts`).

In the later modules two actors and one fault are again what a race needs. Three
verbs are a teardown, what brings the session back and what is fooled by it; five
are needed for a spawn, its undoing, a second spawn and what overlaps it. Two lives
of a daemon overlap or follow each other. Four calls on `project.yaml` are a stale
writer, two allocations around it and one that interferes; one field of the issue
stands for all, as they are written together. Two sessions with a common issue are all
that scope and sharing are about; two moves and two calls are a session that completes
while the other reopens, sweeps or is reviewed. Two projects are a pusher and one that
has not seen it; three commands a push, a pull that makes a brief of it and what
resolves it (or a third push); `sync` also starts with the brief already there. In `live`
two changes are what a timer and its successor, or two events of one queue, need; the
page is opened a second time to come back to what it had. Pages share nothing but the
order in which they are sent to, and keys nothing but queue and sockets, so one of each
stands for all; `Send` to a second page only takes longer.

**Deadlock** is not checked: the systems stop when their requests, verbs or calls are
used up and when the runner is gone. That nobody waits for ever is `EveryRequestEnds`,
`RunnerEnds` and `CatchesUp`.

**Fairness.** `TransitionExecutor`: weak fairness of each process's own progress.
A process blocked on the lock polls and gives up after ten seconds, so waiting is
never unbounded. That a side-effect script ends is an assumption the code does
not enforce (`subprocess.run` has no timeout). Nothing is assumed of crashes,
faults, new requests, acknowledgements. `RuntimeMonitor`: weak fairness of each
thread, of the main loop, of a due timer, of time, and of a *running* agent that
has a SIGTERM pending. A stopped agent does not die of a SIGTERM until it is
continued, which is what `monitor_frozen` is about. Nothing is assumed of gh,
of CI, or of an agent nobody asked to end. `LiveView`: weak fairness of the server's
threads and tasks together, and of the pages together; a send on a socket that is gone
fails sooner or later (uvicorn's pings), and `CatchesUp` asks for a server that stays up
and a page that stays open. Nobody has to change a file or start a server. The other
modules state no fairness:
their properties are about safety.

**Known disagreements without a run of their own.** Reading the code for these
modules turned up more places where it does not do what is written beside it;
they are built into the models as the code has them:

* "The gate either rejects before the write (no state mutated) or commits the write"
  (`core/workflow/transitions.py:41-43`), and the log "always" has completed or rejected
  after requested (`:351-352`). The inner emits stand in the `try` whose
  `except LockTimeout` (`:442`) means the transition lock: when the events lock times out
  after the save, the caller gets `ok=False`, `lock_timeout`, and
  `transition.rejected` is logged for a move that is in the file (`InnerEmitTimesOut`,
  `LogTimeout`; in `executor`, a state with `reply[c] = "lock_timeout"` and
  `move[c] # 0` is reachable).
* "A failed gate means nothing mutated" (`core/session_complete.py:131`):
  `complete_session` accepts a session in `in_review` (`:105`), sweeps its issues to
  completed and is then refused, since no route leads from `in_review` to completed.
* `no_orphan_proj_branches` looks the branch up by session id
  (`core/validator/lint/pr/no_orphan_proj_branches.py:66-68`); `runtimes/prep.py`
  names it after the slug, which for keys of `next-key` (`TST-S1`) and ids with the
  prefix `session-` is not the id. The finding "has no matching session" has no file, so
  from the first such spawn on every spawn of *every* session is refused, with the agent
  already started (`Keyed`, `Orphan`, and the first exception of `OthersDoNotDecide`).
* `templates/artifacts/manifest.yaml` produces the review notes at `in_review`, but the
  route from `in_review` to verified only asks whether the notes that exist are good
  enough; `v_pm_response_*` ask from `completed` on, and gate the route *to* completed,
  where no session has that status yet: they can never refuse it.
* `v_issue_session_status_compatibility` judges the route from planned to queued on the
  status before the move, as every gate does, and so refuses the queued issues that
  `--promote-issues` (`core/session_readiness.py:84-98`) has just promoted for it.
* Nothing removes `review.json` when a session is sent back from `verified`, and
  `v_pr_review_approved` does not ask when it was written: the second round counts as
  approved by the review of the first.
* A prompt check invoked during an earlier visit of a status opens the gate of a
  later one: `transitions.py:1016` asks for all events of the status, although
  `transitions.py:20-21` has "invoked since the status was entered".
* `reset_acks: true` on a route (`core/workflow/schema.py:271-275`) clears nothing:
  the hook reads a flag of the call (`reset_acks.py:15`), as the one it replaces did.
* The end of the runner may cut the settlement of an over-budget session off, when
  the tail thread is in the middle of it.
* The monitor's stamps save whole sessions and may write back a status the executor
  has left, although `runtimes/monitor_actions.py:154-155` says that only the
  executor writes it.
* `ensure_fresh` promises that "the cache reflects the current state of the
  filesystem" (`core/graph/cache.py:894`); one write between parse and fingerprint
  leaves an index that no later call repairs (`why.hidden` in `GraphCache`), and a
  file whose mtime is not newer is not hashed at all.
* `session spawn --resume` does not ask whether the agent it resumes still runs
  (`cli/session/spawn.py:220`): two agents on one worktree, although the comment at
  `cli/session/spawn.py:87-89` has it "re-attach to the running runtime, or restart
  it if the recorded pid is dead".
* "Each phase boundary has gate requirements enforced by the validator
  (`v_phase_requirements`)" (`templates/commands/pm-phase.md:11-12`). No route of
  phase-advancement names it; the status `scoped` does, but
  `core/workflow/transitions.py:962-973` asks for the controls of a status only when there
  is no route, and without a route the move has been refused before. The same holds for
  the tripwires of every other status with a route into it.
* The executor takes any name for the project and locks by that name, so that two callers
  with two names, or one and the UI, write `project.yaml` at the same time
  (`LockGuardsFile`); the declared shape of it is checked by nobody
  (`SingletonGoesUnchecked`), although `core/workflow/schema.py:103-105` has validate
  "enforce it uniformly across every workflow". `status_field` is "the dot-path" there
  (`:111`) and a plain key to the executor.
* `unknown_route_kind` and `unknown_rollback_mode` can never be found in a file, as the
  loader has put a known one in place of what it did not know (`KindsAreRepaired`).
* "A workflow without statuses is a load error, not a silently-empty workflow"
  (`core/workflow/loader.py:371-372`): one whose `statuses:` is a mapping is silently
  empty, routes included.
* The reachability check asks for one route into a status from elsewhere, so statuses that
  only lead to each other pass; the trap check is content with a route back to the same
  status; and of two routes between the same statuses the executor only ever takes the
  first, as with `graph-report`, `validate-report` and `sync-project` of
  project-maintenance (`AcceptedAnyway`).
* `core/event_emitter.py:84` ends an event file with a rename, which the UI's watcher
  maps to "modified" and then drops, since "only the `created` rename is the finalised
  write that we should broadcast" (`ui/file_watcher.py:390-392`, `:403-411`): pages hear
  of a process event only where a new directory is scanned after the rename (`Told`).
* A page that is opened while the server restarts, or that gets its answers before it is
  in the hub, is not told of what changes in between, and has no reason to ask again
  (`websocketClient.ts:97-106`; the first causes of `missed`).
* `session_readiness` calls itself "shared by queue, spawn, and session check"
  (`core/session_readiness.py:1`), but spawn never asks: a session that was queued while
  its blockers were done is started after they were reopened
  (`ReadinessIsNotAskedAgain`). What is blocked by an abandoned session waits for ever.
* A session with a `spawn_config` of its own cannot be loaded unless the project pins the
  runtime: `_apply_agent_yaml_overrides` asks a plain mapping for `model_fields_set`
  (`OwnSettingsNeedAPin`). The strict check of the effort swallows the exception,
  although a "tripwire crashing must not silently let spawn through"
  (`core/session_check.py:528`).
* The manual runtime prints `--session-id` and `--resume` together
  (`ManualResumeHasBoth`); a project's route replaces a shipped one whole, although
  `routing.yaml` says "leaf-level replacement" (`RoutesAreReplacedWhole`); the model of
  the agent `codex-reviewer` is read by nobody (`CodexGetsOpus`).
* Hook and excludes are written into the gitdir of a linked worktree, where git does not
  look for either (`LinkedTreesAreNotGuarded`); the fingerprint of `CLAUDE.md` knows
  neither the order nor the branches of the worktrees it tells the agent about
  (`PreparedOnce`); spawn looks for `claude` also when it is going to start `codex`, and
  never for `codex` (`OnlyClaudeIsLookedFor`).
* `migrate storage` announces acknowledgements named
  `coding-session-<sid>-<prompt>.json` and only puts a prefix before the old name, whose
  parts are in the other order: every open prompt has to be acknowledged again
  (`MigratedAckIsLost`). After `migrate graph`, which moves nodes to
  `instances/nodes/` although it says `nodes/`, it refuses to run without `--yes`.
* "The 8 existing soft v_* checks" are wired through the marker layer
  (`_internal/heuristics/__init__.py`): three of them are registered under the name of
  the check, but their findings are coded `coverage/`, `quality/` and `sequence/`, so that
  they are never quiet and never promoted (`ThreeAreNeverQuiet`). Findings of
  `concept_name_prose` are in a node's file and registered for issues, so their markers
  are keyed by path, and `heuristic gc` removes them.
* `--heuristics-as-tripwires` writes no markers, since otherwise a quiet run "would
  silently drop the very findings that just failed CI" (`core/validator/__init__.py:793-795`).
  The executor's gate runs in the mode that does, over the whole project, and names at
  most one finding of this session: what it marks is quiet although nobody has seen it
  (`GatesMarkToo`). And a stale concept's evidence is who refers to it: when its source
  changes once more it stays quiet (`QuietTheSecondTime`).
* `--fix` gives every comment an `updated_at` (`core/fix.py:74-86`), which its model
  forbids (`models/comment.py:18`): after it no comment loads (`FixSpoilsComments`).
  When it cannot get the lock it changes nothing, reports that under `fixed`, and exits 0
  (`NoLockNoFailure`).
* A malformed enum file of the project, and `lines: [10, 5]` in a node's source, end
  `validate` with a traceback, where loading promises findings (`NotEverythingIsAFinding`).
* `--select` says "project-level findings always included" (`cli/project/validate.py`) and
  drops those in `project.yaml`: with an invalid one it exits 0
  (`SelectingHidesTheProject`). `ID+N` counts hops, `tag:` knows node types and no labels.
* The events log says `pass` of a check that only warns, though the strict gate it belongs
  to refuses the move for it (`RowsOfAGate`).
* `mega_issue` warns "when an issue has >= this many" (`templates/lint/defaults.yaml:24`):
  it warns above it (`Thresholds`). Any fence closes any other (`AnyFenceCloses`), and
  an upper-case key in `[[...]]` is no reference.
* The cycle search finds a cycle when there is one, but not each: those that lead through
  an issue that is done with are not reported (`SomeCyclesAreNot`); which of two critical
  paths is shown differs from run to run (`CriticalPathOfOthers`).
* "Fast-forwards and non-overlapping field changes are applied automatically"
  (`cli/workspace/pull.py:44-45`): a `source` with a line range conflicts with every
  other one even if it is the same, and the body is neither merged nor fetched.

## 4. Proofs

`TransitionExecutorProofs` proves, for every set of processes, every workflow
(statuses, routes, scripts, prompts) and every bound:

* `TypeCorrect`: `Spec => []TypeOK`.
* `OneChain`: `Spec => []MovesFormOneChain`.
* `Implements`: `Spec => ImplementsLedger`.
* `LogIsTrue`: `Spec => []LogTellsMovesInOrder`.

Assumptions: `RoutesAssumption` (routes join declared statuses, start and target
statuses are declared, scripts are named), `CallersAssumption` (the marker of a
free lock is not a process), `FlagsAssumption`, `BoundsAssumption`. TLC evaluates
them in every executor run.

The argument: `MovesFormOneChain` is not inductive, since nothing in it says
that the object a process is about to save still describes the file. `SafeInv`
adds it: exactly the lock's holder is in the critical section (`LockInv`), and
the object it has loaded *equals* the file (`SnapInv`), as no other process writes
while it holds the lock, and what the holder writes it also keeps. With that a
save starts at the file's status (`OnlySavesMove`, `SaveMoves`), and the gate
guarantees a declared route (`RouteInv`). For the log, `OwnInv` says that between
its save and its event a process owns the last move and no event mentions it yet,
so saves and events alternate and the log stays in order.

The second half of the module goes on from there, under the same assumptions:

* `LossesHaveCauses`: `Spec => []EveryLostEventHasACause`. A step is calm, a save or
  the event of one process (`StepKinds`). A calm step may end the process between save
  and event, but then it counts as a crash or a fault; a save adds to `Lost` and puts
  its process there; an event takes both away (`LostStep`, `CauseStep`).
* `VisitsAreNumbered`: `Spec => []VisitNumberReusedOnlyAfterLoss`. `VisitInv` adds that
  every logged visit has a number no larger than the count of logged visits, and the
  visit being reported the next one.
* `DriftIsFair`: `Spec => []DriftBlamesOnlyDoubleLoss`. No new invariant: the last two
  of the chain of moves are missing when the last event is neither at the file's status
  nor one route before it (`DriftNeedsTwo`).
* `AnswersAreTrue`: `Spec => []AnswersAgreeWithTheFile`. `AnswerInv` says that each move
  has one caller, so that nobody else's event makes an answer false later, and that a
  caller on its way to `lock_timeout` has no event of its own.
* `EngagementsAreClosed`: `Spec => []ClosedWhenTerminal`. The hook closes the engagement
  of the status the file has, since its process owns the last move of the chain.
* `ScriptsOverlapAfterCrash`: `Spec => []ScriptOverlapNeedsCrash`. A script has a live
  process that waits for it, and thus holds the lock, or was orphaned by a crash of its
  own (`ScriptInv`).

Of `SessionGates`, `SequentialProofs` proves, for any number of sessions and issues,
every way of sharing, every set of routes that completes only from `verified` and `paused`, and
every bound:

* `ScopeSuffices`: `Spec => []OthersDoNotDecide`. Of all the sessions the scope of `s`
  contains `s` alone (`ScopeHasOneSession`), so each of the thirteen validators that
  judge a session or an issue by itself has the same findings in scope with and
  without the others (`LocalAgree`); of the other two, one only grows with the
  sessions (`OrphansAdd`) and one only shrinks (`OwnersRemove`).
* `RecordsKept`: `Spec => []CompletedHasRecords`. The inductive invariant is
  `RecordsInv`, the property with the shapes of the variables (`GatesType`). A session
  becomes completed only through the gate of `verified` or from `paused`
  (`CompletingGate`), the gate's findings in scope are all there are about its members,
  and an issue the sweep then completes was at `verified` and had been asked for both
  records, or is in `why.skipped` (`SweptHaveRecords`). Afterwards records grow, or are
  lost by name, or an issue is completed by another sweep or by hand.

Assumption: `GatesAssumption` (sessions, issues and the project are different things,
members are issues, routes join statuses and complete a session from `verified` or
`paused` only), which TLC evaluates in `gates`.

`ObserverProofs` proves of `RuntimeMonitor`, for any number and kinds of lines, any budget, limits and
thresholds, any workflow and any moves of others:

* `LinesAlwaysAccounted`: `Spec => []LinesAccounted`. The property speaks of `seen`; what
  carries it is what two threads hold besides. `LogInv` keeps every line number within
  the log. `OrderInv`, while only the tail reads: `seen`, the buffer and the chunk just
  read follow upon each other without a gap. `CoverInv`, at all times: a line before the
  offset has been seen or is in the buffer, one before the end of a thread's read is there
  or in its chunk, and a filled buffer is being emptied by somebody. Both threads may put
  back an older offset or append the same lines, and still nothing is lost. `FlushInv`: the
  flush after the death of the agent reads to the end of a log that no longer grows.
* `SleeperAlwaysHasAWaker`: `Spec => []SleeperHasAWaker`. `SuspendInv` follows the one
  suspension through its list of steps, in whichever thread it is: before the timer is
  started nobody has woken the agent, since the policy object, which both threads use,
  raises it once.
* `SurvivorsAlwaysKnown`: `Spec => []SurvivorsAreKnown`, from `SurvivorInv`, why the runner
  stopped watching; with `MainInv`, since the reaper's steps are those of the main thread.
* `AlwaysWokenForAReason`: `Spec => WokenForAReason`, step by step: only the timer, the
  poller and nobody else sends SIGCONT.
* `OverrunAlwaysSettled`: `OverrunRoutes => (Spec => []OverrunSettledUnlessHit)`. Its
  invariant `OverrunInv` says that an overrun that has fired is in some thread's list of
  steps until both the move and the note are made. The hypothesis, that the workflow lets
  the monitor pause an executing session and nobody else moves one back to `executing`
  under it, is what the code relies on without a check; `MCRuntimeMonitor` has TLC evaluate
  it for the shipped routes (`ShippedOverrunRoutes`).

The conjunction `IInv` of the eight is inductive (`Invariant`). Assumption:
`MonitorAssumption` (limits are positive numbers, moves of others are routes).

Of `LiveView` it proves, for any number of pages, keys, changes, mounts and breaks:

* `StaleViewsAreCovered`: `ViewSpec => []StaleIsOnItsWay`. As `Shown(p, k)` the property is all
  but inductive: each step hands a change on to the next place, `schedule` to the timer,
  `_fire` to the queue, `broadcast_events` to the task, `Send` to the socket, and a socket
  that breaks to the page's next connection. It takes three facts more. The task and the hub
  only have sockets that have been accepted (`SocketsInTurn`), so a page between two
  connections is not taken for one that is sent to. A page has a socket left for every
  mount and every fault to come (`Counted`), so that `Own` is always a socket. And without a
  server nobody waits to be told (`NobodyServes`): that is where a page whose first
  connection is pending would slip through.

`ViewInv` is the conjunction. A step of the server leaves the pages alone (`PageStands`,
`ServerStep`), a step of a page all other pages (`Bystander`, `PageStep`). Assumption:
`LiveViewAssumption` (the bounds are numbers); fairness is not used.

`SessionProofs` proves of `PRWatcher`, for any number of sessions, lives of the daemon and faults:

* `OneDaemon`: `Spec => []SoleDaemon`. `SoleInv` adds who has looked at the pidfile and not
  written it yet: until two starts overlap, a running daemon is the one the pidfile names
  and nobody starts beside it.
* `PlansKeepFollowUps`: `Spec => FollowUpsStay`, from `ReadInv`: until then whoever rewrites
  a plan has read what is in it.
* `OneCommentPerLife`: `Spec => []CommentsPerLife`. Comments are counted against the lives
  that have none ahead of them (`CommentInv`); a daemon's list names a session's comment
  once and only when it counts as fired (`DaemonInv`).
* `FiredIsToldAlways`: `Spec => []FiredIsTold`, with the same `DaemonInv`: the head of the list
  is dropped only by an action that tells, or by a fault that `why.lost` records.

Assumption: `WatcherAssumption` (the bounds are numbers).

Of `SessionLifecycle` it proves, for any number of callers, verbs, faults and member
issues, and for every workflow and set of broken scripts that meets the assumptions:

* `IssuesKeepUp`: `LifecycleSpec => []FloorKept`. The property alone is not inductive: `paused` and
  `failed` have no target of their own, and what leaves them relies on what was reached
  before. `Need` gives them one (`Floor`), and `SweptBy` says of the holder of the lock that
  its sweep has brought every issue it has passed to its goal, unless the issue is in
  `behind` or the sweep is going to fail.
* `CompletedAreMerged`: `LifecycleSpec => []CompletedMeansMerged`. The gate reads a record and a
  directory. `RecordedIsMerged`: a record without worktrees is that of a merged branch, of
  a teardown that is `torn` or of a verb that has removed them and is not done. `Merges` keeps
  what the gate has seen so until the commit.
* `AbandonedAreBare`: `LifecycleSpec => []AbandonedLeavesNothing`. `TakesDown`: what the scripts on
  the way to `abandoned` have taken down stays down; `NothingLeft`: where no script runs on
  the way, there was nothing to take down.
* `LiveHaveTrees`: `LifecycleSpec => []LiveSessionHasTrees`. It needs that the worktrees a spawn has made
  are there when its move comes (`SpawnHasTrees`) and who may remove any (`Cuts`).

`LifecycleInv` is `Local` for each caller and `Global`. `Quiet` says what a step of one
caller does to all the others, so that each action has only itself to account for; only
`Commit`, which changes the status, is followed through every caller.
Assumptions: `LifecycleAssumption`, `FloorAssumption`, `TeardownAssumption`.

The proof corrected the properties: the first attempts at `AbandonedAreBare` and `LiveHaveTrees`
stopped at two sequences of legal verbs that the instance of the run was too small to reach,
the ways round named above. They are in the code, so the properties name them (`back`,
`late`), and the run, which now also starts in `executing`, reaches both.

`ProjectStoreProofs` proves, for any number of processes, phases, fields and calls:

* `KeysOnce`: `Spec => []KeysHandedOutOnce`. `LockHeld`: exactly the holder of
  `project_lock` is in a critical section. `CounterInv`: until one of the named
  races has happened, the file, if it is whole, has the counter that history has, every
  key handed out lies below it, and what the holder is about to write is not behind it.
* `PhasesAccepted`: `Spec => []PhaseWasAccepted`. `PhaseInv` adds that a copy somebody is
  going to write holds no phase that is on trial.
* `SavesKept`: `Spec => []SavesKeepEachOther`. `IssueInv` adds that what a patch has loaded
  has every field that patches have set, until one of the named saves came between.

Assumption: `StoreAssumption` (`Nobody` is no process, `status` and `untidy` are no patched
fields, bounds are numbers). Because all the exceptions are history variables, these
theorems say that there is no other way, for any number of writers.

`GraphCacheProofs` proves, for any number of processes and files, any contents and every
threshold of the bailout:

* `StaleVisible`: `Spec => []StaleIsVisible`. `EntryInv` says that an entry is made of one
  content, which is the file's or older than the file; `AccOf` the same of what the holder
  of the lock has in hand; `WindowOf` that a file is as it was parsed, or `torn`.
* `Ensured`: `Spec => []EnsuredMeansFresh`. `ClaimOf` follows every call file by file: what
  nobody has written since it began is still to be looked at (`Pending`), or the index is
  right about it and will be when the holder of the lock has saved (`Solid`). The second
  half is what several processes make hard. It needs what the holder has read (`ReadOK`),
  that an update takes everything else over as the index has it *now*, not as it was
  when the call looked (`CarryOK`), that a full rebuild overlooks only files made
  since it began (`FullOK`), and that a pass saves nothing only where there was neither
  entry nor file (`AbsentOK`).

Eleven of the thirteen steps of a process change neither the files nor the index: for them
one lemma (`LocalStep`) leaves only what the process itself needs to be shown. Assumption:
`CacheAssumption` (contents are pairs of a flag and references, bounds are numbers).

`WorkspaceSyncProofs` proves, for any number of projects, nodes, fields, edits and
commands:

* `LosesNothing`: `Spec => []NothingLostUpstream`. A value may be replaced upstream when it
  is in `seen`, what somebody took into account in making the copy. `CopyOK` says that
  the values of every copy are, and those of the commit it names, unless the copy is
  `behind`; `SnapOK` says the same of what a command has listed, which others may have
  changed since. The lemmas about the merge (`MergeOK`, `PushComparesStep`) make of that
  what `WritingOK` says: whoever is going to write knows every value it replaces. Between
  write and note, `LockOK`, `WriteOK` and `NoteOK` keep what was written what is
  committed, since both happen under the lock.
* `DropsNothing`: `Spec => []NothingDroppedHere`. `OutOK` says that what a command is going
  to save over a copy leaves out nothing of what it had listed that was not published
  (`Spares`), and commits are never taken back.
* `InStepIsClean`: `InStepMergesClean` needs no invariant, only that a side equal to the
  base cannot conflict.

The proof corrected the model: `behind` used to name only what `merge-resolve` stamps.
That is not inductive, because `copy` and `pull` read the commit first and the node
afterwards; after a commit in between, the copy names values that nobody has looked at,
and a merge takes them for seen. Assumption: `SyncAssumption` (`Nobody` is no project;
`Unread` and `Reshaped` are separate sets of fields; the bounds are numbers).

`SpawnSessionProofs` proves, for any number of callers, worktrees, routes, verbs, faults and
agents:

* `OneFirstAgent`: `Spec => []FreshAgentOnce`. Nothing in the code keeps two spawns apart
  by intention; the branch of the first worktree does. `OneBegins` says that whoever has
  made it is the only one past that point, and that it stays: a second first spawn finds
  it and stops. The history variable is 1 exactly when that spawn has started its agent.
* `NoAgentIsForgotten`: `Spec => []AgentsAreRecorded`. Until the first agent is saved,
  session.yaml and every loaded copy of it have neither process nor conversation
  (`NoneKnown`), so no resume gets as far as an agent of its own. After that an agent is
  only replaced in the record by a resume that began when it was running, and so counts it
  in `why.doubled`, or dead (`ReplacesKnown`), or by a save of a copy that is not the one
  on disk.
* `QueuedIsClear`: `Spec => []QueuedIsSpawnable`. As long as nobody moves it back to queued
  or writes an old copy, a queued session has been so from the start
  (`QueuedFromStart`): then no resume can have begun, and all worktrees are those of first
  spawns that are under way or have stopped.
* `AbandonedIsStopped`: `Spec => []AbandonedStopsItsAgent`. `KilledStaysDead`: between the
  signal and the move pids are not used again, so the agent abandon has killed is dead
  when the session becomes abandoned; the ways to get there without it are the three
  history variables.

Most steps neither save nor make anything: for them one lemma (`QuietStep`) leaves what the
caller itself needs to be shown. Assumption: `SpawnAssumption` (there is a worktree to make,
bounds are numbers).

The rest of `SequentialProofs` is about operators. Of `WorkflowDefinition`, for definitions with any
number of statuses and routes and any catalogues:

* `KindsAreRepaired`: every route the loader returns has a known kind and rollback mode.
* `NamesAreUnique`: in an accepted definition ids determine statuses and routes.
* `RoutesBecomeMoves`: routes begin and end at statuses or ports, and between two statuses
  they are moves of the executor.
* `NobodyIsStuck`: the executor can move an instance out of every status that is not
  terminal unless what leads out leads to a port, back to work from `paused` and
  `failed`, and out of a terminal status only by a revert. The last needs that
  `route_between` returns *some* route of the two (`FirstRoute`), whichever comes first.

Acceptance is used one check at a time: a route or status against the theorem would be a
finding (`NothingFound`).

Of `InstanceFile`, for any keys, values, bodies and names:

* `MoveKeepsTheRest`: load, set, stamp and save keep the form of the file, its other keys
  and its body. Form and body hang on one key of the loaded mapping, which is why the
  theorem assumes that no file has a `body` key of its own in its front matter.
* `LockGuardsFile`: callers of one file take one lock exactly if its path has a place for
  the name. `SingletonGoesUnchecked`: if not, validate finds nothing in it.

Of `Migration`, for any kinds of entities, names, entries and texts:

* `NothingIsLost`: in a project with one file at a place, wherever `migrate storage` ends
  early, every file is still there with its text, at its old or its new place, and no two
  are at one. `ResumedIsWhole`: started again, it leaves what an undisturbed run does.
  `StorageSettles`: a second run changes nothing. The argument is by the two phases: the
  units that are moved and those that are not are separate (`EntityPhase`), and the second
  phase only looks at what the first cannot create.
* `MigratedAckIsLost`: where prompt and session have names of one segment, the migrated
  marker is not the one the gate looks for.

Of `SpawnConfig`, `LastWordCounts`: in every accepted configuration each leaf is what
the last layer that sets it says, but for runtime, provider and the two that codex is not
told. Of `HeuristicMarkers`, for any findings, uuids and markers, `QuietAfterShown`: a
quiet run after one that could write its markers reports no heuristic that the first one
had; and `LeftOutWasMarked`: what a quiet run leaves out was marked before or is said
earlier in the same report. A finding that is left out is thus one that a run *had*, not
one that anybody was shown; `GatesMarkToo` is the difference.

Only model-checked: everything about liveness (`EveryRequestEnds`, `RunnerEnds`,
`CatchesUp`), which like `ENABLED` is beyond the prover; `Preparation`, `ProjectChecks`,
`Validation`, `ProjectDiscovery` and `DependencyGraph`, on cases that TLC evaluates: folds over
lists of directories or findings, which would need induction over data, and the last of them
because it is recursive. Every invariant and action property that a passing run checks is
also a theorem.

## 5. Not modelled

* Telemetry and audit rows, plain-dict instances, partial JSONL lines after a crash,
  torn session and issue files (only `project.yaml` is written in two steps).
* The wording of findings and the four formats of a report; what JIT prompts and prompt
  checks look at; the lint of drifting concepts (`core/lint_rules/concept_drift.py`), which
  only the CLI runs.
* YAML syntax, the fields of models, templates, rendering, reports and one-shot
  initialisation: no state that lives on and nothing that runs at once.
* The views of the front end, the server's GET routes, the events of validations and the
  50 ms the server grants a page to leave before it closes; files that are moved away.
* GitHub and git are modelled only where a caller depends on their answer.

## 6. Plan

Done: executor, monitor, lifecycle, gates, spawn, watcher, graph cache, project store,
workspace sync, live view, project discovery, workflow definition and instance files,
migrations, spawn configuration and preparation, validation, graph algorithms; theorems for
every safety property of a system with steps, and about definitions, instance files,
migrations, spawn configuration and heuristics. Left, in the order of importance:

1. Torn session files as a second file state in `SpawnSession`.
2. The JIT prompts and prompt checks themselves, as far as they are more than a marker.
3. The rest of the UI's services: artifacts, approvals and the graph they draw.
