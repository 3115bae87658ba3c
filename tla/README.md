# A verification project for the Local LLM Benchmark Tool

The tool loads local language models one after the other, runs benchmarks
against each of them and writes the results to CSV files. A run takes hours and
has a GPU, a port, a lock file and a handful of threads and child processes to
keep in order; nearly everything that can fail does so in the middle of
something. These TLA+ modules model that part of the tool: who may run, which
server is up, which model a name means and a result belongs to, what becomes of
requests that nobody waits for any more, and what a registry of models survives. TLC checks the modules on small instances, and
TLAPS proves nearly all of the invariants for instances of any size.

Paths below are relative to `src/src/` unless they start with `src/`.

## 1. Inventory

| Part | State it keeps | Operations | Interacts with |
|---|---|---|---|
| Launcher (`run_benchmarks.py`) | options, current model and benchmark, three result tables | `main`, `_load_model`, `_run_benchmarks_for_model`, `_ensure_model_still_loaded`, one runner per kind of benchmark | provider, model manager, CSV writer, manifests, lock |
| Instance lock (`run_benchmarks.py` 400-450) | a file with a pid | acquire, release; looked at by `patch-reasoning-effort` and `parallel_ab.py` | other launchers, tools |
| llama.cpp provider (`providers/llama_cpp_provider.py`, `providers/base.py`) | the handle of a server process and the model's name | `load_model`, `unload_all`, `wait_ready`, `current_model` | server process, API port, whoever else is on that port |
| Other providers (LM Studio, Unsloth server, TabbyAPI, OpenAI-compatible) | an instance name, or nothing | the same interface, or its read-only half | `lms` command line, HTTP servers |
| Model manager (`model_manager.py`) | none to speak of | discover, select, "is it still loaded?" | provider, registry |
| Custom benchmark (`custom_benchmark.py`) | per task: tries, result; per stream: a dict shared with a thread | `_run_single`, `generate_answer`, `_stream_chat_completion`, `_non_streaming_fallback`, extraction, scoring, task pool | chat server, sandbox |
| EvalPlus, LM-Eval and agentic runners | result files, a proxy server, pools | one call per benchmark | child processes, `tools/lmeval_proxy.py` |
| Sandbox (`evaluate_code`, `sandbox_worker.py`, `windows_job_object.py`) | a job object or process group | run one piece of code under limits, score it | generated code |
| Registry (`registry_tool.py`, 6.5k lines) | `registry.yaml`, configuration files, backups | sync, pipeline, validate, quarantine, dedupe, rekey, fill, add and more | file system, LM Studio's listing |
| Identity (`model_identity.py`, `local_model_resolver.py`, `artifact_resolver.py`) | none | name and path matching | registry, providers, disk |
| Companions (`speculative.py`, `artifact_bundle.py`) | pairing files | which helper model belongs to which model | registry, providers |
| Policies (sampling, KV cache, runtime) | none | functions from entries to settings | provider, custom benchmark |
| Overview (`consolidate_results.py`) | reads everything the runs left | select, read, score | result files |
| Manifests, CSV writer, privacy gate, blueprints, scripts | files | steps before or after a run | file system |

Four behaviours are hard here.

*Failure in the middle.* Popen, terminate, kill, HTTP probes, the registry and
the manifest check can each fail at a point where half of something has been
done. What should be right is that no server is lost, no row names a model that
did not answer, and no normal end hides a missing row.

*Interruption.* Ctrl+C arrives inside any call, also inside the clean-up, and
launchers get killed. What should be right is that the lock is not left in the
way, and that the GPU is free again wherever the code says so.

*Names.* Registry keys, file names, folder names, LM Studio's keys, variants and
instance ids all name the same models in different spellings. What should be
right is that a name that states a quant or a publisher never quietly comes to
mean something else.

*Threads and processes that outlive their caller.* A stream that is given up on
keeps its thread; two launchers may start at once; a foreign server may hold the
port. What should be right is that whatever is left behind disturbs nobody.

Per component, the properties wanted are:

* lock: mutual exclusion of launchers; tools do not begin beside a launcher that
  holds the lock; nobody removes another's lock; the file names who holds it;
* provider: one server at most, reported truthfully; failed loads leave nothing;
  every call returns; foreign servers not mistaken for our own (which the code
  does not achieve, section 5);
* launcher: right model per row, complete manifests, checks not skipped, free
  GPU at the end, agreement of the tables, termination;
* generation: answers whole and of their own task; no overlapping requests of a
  task; whatever is left behind was told to stop, and stops; every task gets a
  result;
* runners: the score of a manifest run is computed from this run's samples;
* proxy: its slots come back; sandbox: full marks are earned, evaluations end;
* task pool: every row belongs to its task;
* registry: what a person wrote is never lost; what validate passed is really
  bound; repeated syncs settle;
* look-up: no look-alikes; LM Studio: a reported load is proven;
* overview: no foreign scores in a row, an overall score that what is missing
  neither raises nor (section 5) lowers.

## 2. The modules

```
ModelSlot  <---- implemented by ----  LlamaServer        Identity
    ^                                                      ^
    | INSTANCE                                             | EXTENDS
Launcher   InstanceLock   Generation      ModelLookup   LmStudio   Consolidation
      \          |          /                  \            |          /
       +---- MCLauncher ----+                   +------- MCNames -----+

Companions <- RegistryLinks         LlamaServer  Runners  LmevalProxy  Sandbox  TaskPool
                 <- RegistryCommands       \         |         |          |       /
                    <- RegistryChecks       +-------------- MCEvaluation --------+
                       <- Registry
                            <- MCRegistry
```

`MCLauncher` (the launcher: its lock, its loop, its requests), `MCEvaluation`
(the programs that serve and evaluate a model) and `MCNames` (where a name
decides) each put several components under one roof. The components under one
roof share no variable, so a behaviour runs one of them (its `part`) while the
others rest in one of their states, and nothing is lost by not interleaving
them.

Each component module holds variables, actions, properties, in the modules of
process and thread life (LlamaServer, InstanceLock, Launcher, Generation) the
inductive invariant (`IInv`, `LockInv`, `GInv`), and mutants (`X_Something` or `Definition_Something`, just before the definition
they belong to; no specification uses them: each is a plausible bug, put in the
place of that definition to see that a property notices). `MC*` modules instantiate them for
TLC, `*Proofs` modules hold the theorems and the other inductive invariants:
`NamesProofs` is about ModelLookup, LmStudio and Consolidation, `EvaluationProofs`
about Runners, LmevalProxy, TaskPool and Sandbox, `RegistryProofs` about Registry and all it
is built on, the others about the module they are named after. `FoldLemmas` says
what folds and sums over finite sets give.

### ModelSlot

The promise a process-owning provider makes to its caller: one slot, one call
at a time, only a load fills the slot, only with its own model, and a positive
answer says something about the slot. A server may vanish at any time. This is
the abstract specification of the interface `ModelManager` (`providers/base.py`
60-69), as its callers rely on it.

### LlamaServer

`_ServerController` and the `LlamaCppProvider` calls on it.

| Model | Code |
|---|---|
| `process`, `model_identifier` | the controller's two attributes |
| `current`, `polls`, `after` | locals of `load_model` and `wait_ready`; which of its calls to `stop()` is under way |
| `procs`, `served`, `port` | the operating system: processes, the model of each command line, who holds the port |
| `AlreadyLoaded`, `NotLoaded`, `ExternalFound`, `NoExternal` | the early answers of `load_model` |
| `StopEnds`, `TerminateTimesOut`, `KillTimesOut`, `StopReturns` | terminate, wait, kill, wait, and both callers |
| `PopenFails`, `Popen`, `StartDies`, `StartSurvives` | `start` and its startup window |
| `WaitChecks`, `ProbeAnswered`, `ProbeFails`, `WaitTimesOut`, `WaitReturns` | the poll loop of `wait_ready` |
| `Bind`, `Crash`, `ForeignArrives`, `ForeignLeaves` | the environment, between any two steps of a call |

The probe before a start (`_external_server_reachable`) waits one second and
takes any failure for a free port, so `NoExternal` is possible whoever holds it.
Nothing in the code compares who answers `wait_ready` with who was started:
`ProbeAnswered` asks for somebody on the port, and `ReadinessIsOwn`, which asks
for our own server, is violated.

### InstanceLock

The lock file, one system call per action: existence test, read, liveness
probe, truncating open, write; and for the release read, compare, remove.
Launchers can be killed (`Kill`) between any two, which leaves a stale, empty or
half-written file, and the system may hand a dead launcher's pid to a stranger
(`Recycle`). A launcher whose write fails runs without a lock (`RunUnlocked`,
line 435). `Overlap = FALSE` says that whoever starts the launchers starts them
one at a time: one is through with its start before the next one begins.

Tools look in three steps of their own (`ToolLooks`, `ToolReads`, `ToolProbes`)
at any time, also while launchers start, and then work; launchers do not look for
tools and start beside them. `beside` is a history variable: the launchers that
have held the lock ever since the tool began to look. `ToolsYield` says that such
a launcher turns the tool away. That tools and launchers are kept apart is not
claimed: it is not so (section 5).

Assumed: the file can be read if it exists and holds what `json.dump` wrote or
nothing parseable (a JSON value that is no object makes the code raise), and
`os.remove` acts on the file as one step.

### Launcher

The main loop against any provider that keeps ModelSlot's promise.

| Model | Code |
|---|---|
| `conf` | `--comparison-manifest`, `--unload-between`, and whether the provider owns the lifecycle |
| `Loading` places, `site` | `_load_model`, called at the start of a round, between benchmarks and by `_ensure_model_still_loaded` |
| `NextBench`, `UnloadedBetween`, `Result`, `NoResult`, `Caught`, `NotCaught`, `Ensure` | `_run_benchmarks_for_model` |
| `Write`, `WriteFails`, `Except`, `CleanedUp` | the rest of main's `try`, its `except BaseException` and the unload after it |
| `Interrupt` | KeyboardInterrupt at any place, up to `MaxInterrupts` |
| `model_results`, `all_summary`, `saved` | the row lists and the per-model file |

A benchmark is one step that yields a row, none, a caught or an uncaught
exception. `fresh` and `unchecked` are history variables. A provider without a
lifecycle reports no current model, and its model is not in the slot. Not part
of it: the LM-Eval proxy it starts and stops, the pre-flight selection, and the
contents of rows. A kill of the launcher itself is left to InstanceLock.

### Generation

How the custom benchmark gets an answer: `_run_single` tries a task a few times,
`generate_answer` streams and may fall back, `_stream_chat_completion` watches
a worker thread per stream.

| Model | Code |
|---|---|
| `worker[q].at` | where the thread of stream `q` is: connecting, reading, holding a line, in its `finally`, done |
| `worker[q].content, thinking, error, cut, cancel` | its result dict and its `cancel_event`; `error` is the first of `violation`, `error_type`, `error` that the monitor will look at |
| `q` in `Requests` | task, try and attempt: the dict and event are those of one loop iteration (704-709), bound as default arguments of the thread's function |
| `LineArrives`, `Chunk` | the event is looked at when a line arrives (730), the line is written down later (753) |
| `WatchGivesUp`, `Stop`, `Join` | the deadline or a stall, then the event, then `join(timeout=1)`, which may return with the thread still running |
| `Settle*` | what the final copy (842-849) leads to, in the order of lines 850-871 and 1085-1117 |
| `Expire` | the absolute deadline of this call passes |
| `TryAgain`, `Record` | lines 2274-2340 |

A stall and a missing first token need no clock in the model: the monitor may
give up at any time, and has to once the deadline has passed. Text is the set of
tasks it comes from, so "whose answer is this" is visible. What a finished dict
holds is forgotten once nobody can read it. Out of scope: evaluation of the
answer, and several tasks at once (`num_parallel > 1`), which share no variable
of this module.

### Identity, ModelLookup

Names as token sequences (words, `/`, `@`, quant), their normal forms, and the
staged match of a requested name. `ModelLookup` adds a registry and a disk that
change between look-ups.

| Model | Code |
|---|---|
| `NormQuant`, `NormIdentity`, `BaseIdentity`, `NormForConfig` ... | `quantization.normalize_quant` and the functions of `model_identity.py` of similar names |
| `Stages`, `Decide`, `Resolve` | `resolve_registry_match`: each stage answers, or is ambiguous, or hands on |
| `Offered`, `Persisted`, `ResolveFile` | `LocalModelResolver.candidates`, `_persisted_model_binding`, `resolve` |
| `ResolveArtifact` | `ArtifactResolver.resolve` |
| `AddKey`, `RemoveKey`, `Bind`, `AddFile`, `RemoveFile` | editors of the registry, downloads and deletions |

Joints (`-`, `_`, `.`) and case are folded, and a word is never part of another
word, so what a substring match could confuse inside one word is not seen. No
entry has the empty name, and a file is not one of the answers that mean no file
(`LookupAssumption`).

### LmStudio

One call of the LM Studio provider against a server that its user works on too.

| Model | Code |
|---|---|
| `Catalog` rows | what `/api/v1/models` and `lms ls` say of a file: the server's quant, the (possibly stale) one of the index, the one in the file name |
| `OfferedKeys` | `list_models` |
| `BeginLoad`, `ServerLoads`, `ServerRefuses`, `LoadTimesOut`, `PostFails` | the request of `load_model` and how it ends |
| `Refuse` | an entry whose key does not name publisher, model and quant: `load_model` says no before it asks the server |
| `Prove`, `Trust`, `Accept`, `Nothing` | the listing after it: `_loaded_binding_for_identity`, the checks of context, KV types and speculation, and the second attempt |
| `Probe`, `StartServer`, `Reprobe`, `Llmster` | `ensure_server` |
| `ListLoaded`, `UnloadOne`, `PollUnload`, `UnloadUnconfirmed` | `unload_all` |
| `Current`, `WaitReady` | `current_model`, `wait_ready` |
| `UserLoadsModel`, `UserUnloadsModel`, `ServerChanges`, `LateLoad` | the user, the server, and a load nobody waits for any more |

The `llmster` branch of `ensure_server` says yes without looking at the server
again, as the code does. A load refused by the proof leaves the instance loaded.
A short name that was resolved by a later stage than the exact key or the
namespace alias is always refused after the load: it fails closed. What is
proven is that an instance of the reported id really had what was asked for;
that the server gave that id to another instance since then, nobody looks at.

### Registry, RegistryCommands, RegistryLinks, RegistryChecks, Companions

`registry_tool.py` in layers. `Companions` says which helper belongs to which
model; `RegistryLinks` joins the four inventories (entries, LM Studio's models,
configurations, files); `RegistryCommands` is what each command makes of the
registry; `RegistryChecks` is what compare, validate and quarantine report; and
`Registry` runs the commands.

| Model | Code |
|---|---|
| `World`, `Linked`, `Inventory` | `_collect_registry_inventory`, `_refresh_identity_links`; a step that begins with the links ends where they fail |
| one-step commands | `cmd_add`, `cmd_dedupe_registry`, `cmd_migrate_keys`, `cmd_fill_quant`, ...: read all, replace the file once |
| steps of `cmd` | `cmd_sync`, `cmd_pipeline`, `cmd_quarantine_missing`: several saves, moves of files, backups; a kill or an error between any two |
| `verdict` | what the last `pipeline full` said |
| `Edited`, `HandEdit` | a person's editor: any fields of an entry; what no command understands is a set of pairs of a field and a value, `hand` |
| `Overruled`, `MergeMissing`, `GivenUp` | what two entries say of one field: a merge keeps the word of the entry that stays, `migrate-keys` drops the other one |
| `Renamed`, `Added`, `Merged` | loops over entries that move, add or join one after the other, as folds over the set |
| `owed` (history) | what people wrote into entries and did not remove |
| `WithProfile` | a configuration's helper that is missing takes the profile with it; one that is there and does not fit leaves the profile without a helper, which validate then reports (1196-1226) |
| `settled` (history) | completed syncs since the last change |

Assumed: one command at a time, and nobody edits a file while it runs. The code
has nothing that keeps two writers apart: what another command saves between a
command's reading and its `os.replace` is lost (`registry_tool.py` 2422). The
registry starts as a finite map from keys to entries with these fields, and
there are finitely many files, models and configurations (`RegistryAssumption`).

### Runners

The four runners of `run_benchmarks.py` and the files they share.

| Model | Code |
|---|---|
| `call`, `score`, `answer` | one call of `run_evalplus`, `run_lmeval`, `run_agentic` or `run_custom_benchmark` |
| `gen`, `strays`, `samples` | the EvalPlus code generation, those a time-out left behind, and the file both append to |
| `results`, `logs` | `results_*.json`, `samples_*.jsonl` per output directory |
| `child` | the child process of the call, killed at any point |
| `Judged` | the score of a samples file; samples of no task of the dataset would be left out, but no generation writes any |

### LmevalProxy, Sandbox, TaskPool

`LmevalProxy` is the proxy's admission: the semaphore, one thread per request,
streams of events, clients that leave, and the launcher that starts it, looks at
its port and stops it. `Sandbox` is one call of `evaluate_code`: the four ways
to judge, the worker process, its job object, and a process the code may start
that keeps the pipes open. The two runs of the DS1000 harness are steps of their
own (`Harness`, `HarnessRetry`), and `checks` remembers which of the harness's
checks each run made and passed. What a worker's run did (`did`) is kept apart
from what the parent reads in the pipe (`said`): the parent takes the first line
with the mark, and `PrintResult` lets the code write one before the worker does.
`TaskPool` is one run of the custom benchmark's
process: selection, the pool or the loop, the sampler thread and its join, and
both files. What a reply says (`Generation`) and what a test finds (`Sandbox`)
is a choice there.

### Consolidation

What the runs of many weeks left and which of it makes the row of a model.

| Model | Code |
|---|---|
| `tables` | `tasks_*.csv` of DS1000 and CoderEval |
| `folders` | `evalplus_*`, `lmeval_*`, `agentic_*`: name, time, readable results |
| `LatestTables` | `find_latest_csvs` with `--since`, `--until`, `--all-runs`, `--runs`, `--merge` |
| `FolderCandidates`, `FolderFor` | `_find_newest_by_mtime` |
| `BenchScores`, `Overall` | `read_data`, `compute_category_scores` |

A score remembers of which model it was measured, and whether it was read at all
or filled in by `read_data`. Scores are small numbers, in
twelfths when averaged. The order in which a directory is listed is a choice.

## 3. What TLC checks

Runs are listed in `PROJECT.json`; all bounds are in the `.cfg` files.

| Run | States | What it shows |
|---|---|---|
| `launcher` | 447 thousand | Lock: with launchers' starts one at a time, exclusion of launchers, tools that yield to whoever holds the lock, and no foreign removal, through kills, stale and corrupt files, recycled pids and launchers without a lock. Loop: right model, complete and checked manifests, free GPU, termination. Requests: whole answers of their own task, no overlap within a task, strays ending, a result for every task |
| `lock_race` | violation | Two launchers that start together both get the lock |
| `launcher_fail_closed` | violation | A manifest run can end normally without any manifest row |
| `launcher_reload` | violation | A benchmark runs on an old server although it should have been reloaded |
| `names` | 589 thousand | Look-up: what is found is what was named, bound files are used, additions never redirect a name. LM Studio: a reported load is proven, an offered name that the registry recognises is accepted, unloaded means empty. Overview: no foreign scores in a row, and an overall score between the scores that were read, except for the filled-in 0 of `overview_missing` |
| `names_overview` | violation | The row of a quant shows a later result of the model without a quant, although it has its own |
| `overview_missing` | violation | An EvalPlus dataset that was not run lowers the overall score |
| `registry` | 130 thousand | What people wrote stays, what the headers corrected stays correct within a pipeline, what it validated is bound and its pairing proven, syncs settle, with kills and errors between any two steps |
| `registry_links` | violation | Two entries that declare one configuration make every command that links fail |
| `evaluation` | 265 thousand | llama-server: servers are neither lost nor doubled, reports are true, failed loads clean up, calls return, and the provider implements ModelSlot. Evaluation: a manifest's score is this call's own, slots add up and come back, full marks are earned unless the code writes the result itself, evaluations end on Windows, rows are their tasks' |
| `llama_readiness` | violation | A load is acknowledged on the answer of a foreign server |
| `harness_retry` | violation | Full marks without the check of the text that the harness has |

Why the bounds are enough:

* LlamaServer: two models are what "another model" needs. Three processes: one
  that refuses to end or has crashed, its replacement, and one more. Two polls:
  one that fails and one that answers. When the processes are used up, `Popen`
  is no longer possible, but `PopenFails` and `NoExecutable` are.
* InstanceLock: three launchers are the owner, a second one that is turned away
  or starts as the owner leaves, and one that runs without a lock. One tool, as
  tools do not see each other.
* Launcher: two models and two benchmarks give a first and a following round of
  each kind. `Bound = {2}` leaves one benchmark that the manifest binds and one
  that it does not. Two interrupts: the second one hits the clean-up.
* Generation: two tasks, so that a worker of the first meets a request of the
  second; two tries of two streams each, so that each retry happens and runs
  out. The code's limit is three.
* Look-up: five keys (two publishers, a variant, the hub's alias, a container
  marker), at most three at once (two that compete and one that arrives), one of
  them bound; four names, from the full one to the bare model; four files on
  two roots, one of them a helper and one that states no quant.
* LM Studio: seven rows (two quants of a model, a second model under its full
  name, a row whose fields contradict each other, an unregistered one, a
  helper, and one that names neither publisher nor quant in its key), and an
  entry whose key names no publisher; one call, two moves of the user or the
  server, two polls. `RowsAssumption` says that of the names this catalog offers
  the last row's is the only one that `RecognisedName` leaves out. The first state may hold a load of an earlier caller that is still pending.
* Overview: two quants of a model, the model without a quant, and one whose name
  begins alike; two runs of any benchmark, so that a later one can cover an
  earlier one; five command lines, one per way to select.
* Registry: two quants of a model, a helper, one configuration per file and one
  per folder; one change from outside or by a one-step command, around sync,
  pipeline and quarantine.
* Evaluation: two tasks, manifests of one, of both and of one twice, two calls
  (one that times out, one that meets what it left, of its own task or of one
  outside its manifest); three clients for two slots, one event per stream; two
  names that the set-up binds, and code that keeps, changes or deletes them or
  leaves what has no digest, two tests; five tasks, one broken and
  one without a group, two threads (four in the code), and sample sizes on both
  sides of the one that decides between loop and pool.

`CHECK_DEADLOCK FALSE` stands where the program really ends (the runs of
`MCLauncher` and `MCEvaluation`) or where the bound on changes does (those of
`MCRegistry`); the others never stop.

Liveness is stated by what holds for ever or again and again in the end
(`<>[]` of a last state, `[]<>` of a state between two calls), which says the same
of these components as "leads to" and is cheaper to check.

### Fairness

* LlamaServer, `WF(Provider)`: the caller's thread keeps running. `terminate`,
  `kill` and the probes all have timeouts in the code, so every place has an
  enabled step. Nothing is assumed about the server, the port or the caller.
* InstanceLock: none. Launcher, `WF(Main)` and `WF(Answer)`: the main thread keeps running, and
  provider calls return, which is what `LlamaServer!CallsReturn` shows.
  Nothing forces a benchmark to succeed or the model to stay loaded.
* Generation, `WF(Thread)` and `WF(Expire)`: the thread keeps running and time
  passes; `WF(late /\ WatchGivesUp)`: the monitor, which wakes every 50 ms,
  sees that the deadline has passed. `WF(SomeWorkerEnds)`: a worker's blocking
  calls time out and it looks at its event at the next line. The fallback is
  assumed to return (within `Thread`): `urlopen`'s timeout bounds each read
  but not the whole response, so a server that trickles bytes could hold it up.
* LmevalProxy, `WF(HandlerStep)` per request: its sockets and the server's
  answers have time-outs. Clients may stay silent for ever.
* Sandbox, `WF(Evaluates)`: only `evaluate_code`'s own steps; the code it runs
  may hang. `EvaluationReturns` is about Windows: elsewhere, a process that
  keeps the pipes can hold the final read up, and nothing kills it.
* Registry, `names`: no fairness; `SyncSettles` and the others are about steps.

## 4. What is proved

Every theorem is for all values of the constants that satisfy the module's
named assumptions. These say no more than what the parts of an instance are:
bounds are numbers, sequences are sequences, a file is not one of the answers
that mean "none", no entry has an empty name, no quant is spelled as an empty
word, a row of LM Studio's list has its names and quants, a registry is a
finite map from keys to entries, and no model has a time like those of `lmeval` folders in its
name. The last is needed: a row of `a_<time>@q4` would take the folder that a
run of `a` at that time left. Each theorem rests on an inductive invariant, which the proofs
establish; the runs check the properties that follow from it.

| Module | Theorems | The inductive invariant and why it is needed |
|---|---|---|
| `LlamaServerProofs` | `OneServer`, `Report`, `Leftover`, `Refinement` | `NoLostServer` alone does not survive `Popen`: that a new process is started only when none runs follows from where each stretch of a call comes from (`StageInv`), and that the running one carries the wanted model from `IdentityInv`. `Refinement` maps the slot to the model of the running process; each step is a step of ModelSlot or a stutter. |
| `LlamaServerProofs` | `BoundedCalls`, `ProgressOfCalls` | `StepsLeft`, the number of steps the thread can still take from its stage, from what follows a stop and from the polls left, is at most `4 * MaxPolls + 12`, falls with every step of the thread and changes with no other. `IInv` bounds the polls. This is `CallsReturn` without its fairness. |
| `InstanceLockProofs` | `OneLauncher`, `ToolsYieldToHolders`, `Named`, `Removal` | All assume `~Overlap`, which speaks of launchers only. `CheckInv` says that while the file names a launcher that is there, nobody is past the check; `RemoveInv` that what release has read is still in the file; `ToolInv` that what a tool has read names every launcher that has held the lock since the look began. |
| `LauncherProofs` | `NeverAnotherModel`, `CompleteManifest`, `CheckedManifest`, `CleanUp`, `Agreement` | `SlotInv` keeps the model of the round in the slot from the acknowledged load on; `CoverInv` counts the rows of finished rounds and benchmarks; `CleanInv` remembers what the last unload answered; `SummaryInv` relates the tables while they differ. |
| `LauncherProofs` | `NoWayBack` | Of `IInv` it needs the types and `CallInv`: every step goes up in the lexicographic order of model, part of the round, benchmark and step within a benchmark (`Ahead`). Reloads between and after benchmarks use the same steps as the first load, so `Step` places them by who asked (`site`). This is `Ends` without its fairness. |
| `GenerationProofs` | `AnswersAreTheirOwn`, `RequestsDoNotOverlap`, `StraysWereStopped`, `NoPartialAnswers` | `OpenInv` says which streams can be open at all, `WatchInv` that the monitor's decision, the event and the worker's end fit together, `TextInv` where text comes from. The step lemma for workers (`WorkerMoves`) states once what all their steps have in common. |
| `EvaluationProofs` | `FullMarks` | `SInv`: as long as no code wrote a result line itself, a report that counts is what the last run of its script did (`ReportInv`), because no script runs twice in a call (`OnceInv`); the harness's answer follows from what its two runs passed. `FullShare` turns "as many agree as there are" into "all agree", which needs the names to be finitely many. |
| `NamesProofs` | `BoundOrRefused`, `NamesKeepIdentity`, `NewEntryNeverRedirects`, `SecondCopyIgnored` of the look-up | `LInv`: what was found is what the present registry and files give, so that the claims become claims about the stages of the match: each stage that answers knows the quant (`QuantOf` of a name is what was put behind its last `@`), and one more key adds to a stage only itself. |
| `NamesProofs` | `LoadedOnlyWhenProven`, `UnloadedOnlyWhenEmpty` of LM Studio | `MInv`: what is listed was loaded (`HistoryInv`); what the server echoes comes from an instance of the id it names (`EchoInv`); the proof is skipped only where no proof was needed (`AskedInv`), which rests on no entry having an empty name. |
| `EvaluationProofs` | `ScoresAreOwn` | `RInv` counts: this call's samples in the file and its tasks still to do are together as many as the manifest has tasks (`EvalPlusInv`). So a file of exactly that length, which is what the check asks for, holds nothing that a stray of an earlier call wrote. `LmEvalInv` and `AgenticInv` say whose the files of the other runners are. |
| `NamesProofs` | `OfferedModelsLoad` of LM Studio | `OInv` (on top of `MInv`): as long as the server does as it is asked and nobody else steps in, nothing is loaded before the request and exactly the instance that was asked for after it (`CalmInv`). The rest is about names: the identity that a row's fields give is its full name (`RecognisedIdentity`), the name it is offered by finds the entry of that full name in the first or second stage (`RecognisedRuntime`), so the listing binds the instance (`RightIsBound`) and proves it, whatever the server echoes of it (`RightIsProven`). |
| `EvaluationProofs` | `SlotsAreKept` | `PInv`: where each handler is, and that the holders are finitely many; free slots and holders together are the limit, also when the proxy is killed with its threads and started again. |
| `EvaluationProofs` | `RowsBelong` | `TInv`: begun tasks are at work or finished, and as many results as tasks begun (`WorkInv`), whatever the order in which they finish; the rows made from them stand in the order of the tasks (`RowsInv`). |
| `NamesProofs` | `RowsAreOfTheirModel`, `OverallLiesBetween` of the overview | `CInv`: every score in a folder is of a run whose name, with a time perhaps, is the folder's (`FoldersInv`), and every score of a row is a number of a model with the key's base (`OverviewInv`). `FoldersBelong` is about sequences: whichever of the three patterns a folder fits, it agrees with the key up to the `@`. `OverallBetween` compares sums (`SumsCompare`); the lower bound needs that every score that counts was read. |
| `RegistryProofs` | `NothingWrittenIsLost` | `KInv`: quarantine's backup covers what it is about to drop, and takes back only what is still in the registry (`Quarantined`); what the pipeline remembers from before the classification and later saves again holds the same facts as the file (`Remembered`). Without either, a rollback or the last save could lose a fact. |
| `RegistryProofs` | `ValidatedStaysBound`, `PairingStaysProven` | `VInv`: validate looks at the file through links made for the remembered registry; `Rebound` says that the file is what the last binding made of that registry, so the links still speak of it. With that, a complaint that validate does not make turns into a fact about entries, files and configurations. |
| `RegistryProofs` | `HeadersStayRight` | `HInv`: the registry in the file contradicts no header, and the one the pipeline remembers says the same as the file in all a header speaks of (`HeadersHold`, which is also checked, is its first half). Later steps change other fields only; that a binding or an import does not move an entry to a file with another header follows because the evidence for a file depends on the keys alone (`EvidenceByKeys`). Without the second half the save of step 4a could bring a corrected number back. |

With these, every safety invariant and action property that a passing run checks
has its theorem, except for `SyncSettles`. `Agreement` (the launcher's tables agree),
`StraysWereStopped` (streams left behind were told to stop), `BoundedCalls`,
`ProgressOfCalls` and `NoWayBack` state what no run lists; TLC confirmed each of
them on its instance before the proof.

*Induction.* The installed provers cannot instantiate the library's induction
theorems. Where an induction is needed, the proofs use its least
counterexample instead: the sets `0..n` over bad numbers `n`, or the bad sets
themselves, have a smallest member by strict inclusion (`WFMin` with
`FS_StrictSubsetOrderingWellFounded`). `FoldLemmas` obtains from it that a
fold over a finite set is defined and stays within a set its step does not leave
(`FoldExistsAndMeets`), and from that what the loops over entries keep and
how sums compare; `NamesProofs` and `EvaluationProofs` obtain least and greatest
numbers of bounded sets.

`OfferedIsAccepted` speaks of the names that `RecognisedName` allows: the fields
of the row agree, the registry has its full name, no other entry answers to it,
and the offered name is the full one or stands on the row itself. That is what
`_registry_identity_for_native_model`, the stages of the match and the alias
check ask for; without the last part the claim is false (section 5).

Only model-checked:

* liveness (`CallsReturn`, `Ends`, `AllRecorded`, `StraysEnd`, `SlotsComeBack`,
  `EvaluationReturns`): out of the prover's reach. Of `CallsReturn` and `Ends`
  only the fairness is: that a thread which keeps running gets there is
  `ProgressOfCalls` and `NoWayBack`, if it is never left without a step;
* `SyncSettles`, which compares what eight commands make of one world with what
  they made of it before: a fact about a computation, not about a step;
* the violations, which are facts about one behaviour.

## 5. What the code does differently from what it says

These are the violation runs; `PROJECT.json` quotes the lines.

1. *Two launchers at once.* The lock is tested, read and written in three steps.
2. *Fail closed.* With `--unload-between` and a provider without a lifecycle,
   every model is skipped, and a manifest run ends with exit status 0 and no row.
3. *Reload between benchmarks.* The answer of `unload_all` is ignored; if the
   server refuses to end, `_load_model` finds the model loaded and goes on.
4. *Linking.* Two entries with a model file each that declare the same
   configuration: `matching_configs[0]` of an empty tuple, an IndexError
   (`registry_tool.py` 693), where validate should have complained.
5. *Readiness.* The changelog calls it process-owned; `wait_ready` takes any
   server that answers on the port, and the probe that should have found a
   foreign one gives it one second and takes 401 or 503 for nobody.
6. *Harness.* The first program of the DS1000 harness calls `test_string` where
   the task has it, the second one (`custom_benchmark.py` 1700-1704) does not.
7. *Partial data.* `compute_category_scores` says that "only HumanEval+ but not
   MBPP+" is scaled up; `read_data` (1320) fills the other one in with 0 first.
8. *Falling back.* `_find_newest_by_mtime` does not fall back on the model
   without a quant; it puts all folders into one list and takes the newest.

Observed while modelling, with no run of their own:

Launcher and lock

* `patch-reasoning-effort` and `parallel_ab.py` look at the lock once, and a
  launcher that starts while they work does not see them: no launcher looks for
  tools. So the tools keep out of a running launcher's way, not it out of theirs.
* `sys.exit(2)` between two models (`run_benchmarks.py` 2597, 2616) is outside
  of the `try` and does not unload.
* After a benchmark whose exception was caught, the check that the model is
  still loaded is skipped (2522). For benchmarks bound by a manifest it is not,
  which is what `ManifestChecked` is about.
* Ctrl+C during the first load of a round, before main's `try` is entered,
  leaves the server running.
* A stale lock whose pid now belongs to another program turns launchers away.
* The lock is released at exit after the pool threads were joined, so a stray
  EvalPlus generation keeps the launcher and its lock alive.
* `--benchmarks` may name a benchmark twice.

LM Studio

* A model that is listed under a key without publisher and quant and without a
  selected variant is offered as `key@quant`, the quant being the one of the
  index or of the file (`lmstudio_provider.py` 171-183). If the registry has it
  under its full name, `load_model` loads it and then always refuses it: neither
  the key, nor a variant, nor the instance's id is the offered name (546-558).

Generation and evaluation

* `_run_single` records a task whose last try raised a transport exception
  without an `error_type` (`custom_benchmark.py` 2295), unlike every other
  failure. A later reader cannot tell it from a wrong answer.
* After a worker was left behind, its request may still occupy the server when
  the next task's request starts, so that task's latency and resource peaks
  include it although tasks are sequential.
* `nvidia-smi`'s time-out (`custom_benchmark.py` 530) is not caught: it ends the
  benchmark, and its results are lost.
* A sampler that outlives its join of three seconds is revived by the next
  `start_sampling`, and can record a peak measured before.
* The first line with the mark is the result (`custom_benchmark.py` 1482), however
  the worker ended; a script that prints one into the worker's real stdout is
  believed. `FullScoreIsEarned` excepts such runs.
* A task with a reference and no set-up is scored by running the reference.
* The ids confirmed to the launcher are those `_finalize` has seen; the marker
  is printed before the CSV is written.
* Without a manifest, the LM-Eval score can be that of an earlier run, and old
  EvalPlus samples that cannot be deleted are mixed into the new ones.
* A stray EvalPlus generation and the next one nest `redirect_stdout`, and can
  leave the launcher without its standard output.
* The proxy is started without `--upstream` and takes `LLM_API_BASE` or port
  1234; with another provider's address LM-Eval may ask another server than the
  comment at `run_benchmarks.py` 1576 says.
* A stream broken by an `OSError` ends with `[DONE]` and looks complete.

Overview

* `evalplus_subset_eval.py` 282 writes `..._eval_results.json`, without the
  per-task results; both the launcher's clean-up (`run_benchmarks.py` 1432) and
  the overview (`consolidate_results.py` 829) look for `....eval_results.json`.
  Scores of HumanEval+ and MBPP+ of this launcher never reach the overview, and
  older ones disappear when it evaluates again.
* Without options only the CSVs of one timestamp are used, which splits DS1000
  and CoderEval of one run; `--runs N` keeps the N newest models, not clusters.
* A folder's time does not change when a file is written into an old subfolder.
* LM-Eval folders of manifest runs appear as models of their own with `--merge`
  and `--no-installed`; a key without a quant takes any folder that begins so.
* `--compare` passes the seed as the number of resamples and reads keys that
  `compare_two_quants` does not return.

Registry

* One completed sync is not enough to settle: `SyncSettles` says two.
* quarantine-missing with two missing keys that find the same configuration
  always rolls back; its backup has no "partial" entries.
* add drops an entry without a quant when a variant of it arrives, and with it
  what a person wrote there; migrate-keys drops what the entry it merges into
  says otherwise. Neither makes a backup, as dedupe and quarantine do.
* `gguf_header_drift`, which validate reports, cannot come up in a pipeline
  whose files stay as they are: `HeadersHold` includes the validate step.
* A draft model of the simple kind needs no recorded pairing to pass validate;
  `PairingStillProven` asks of it that both files are there, and of the kinds that
  are made for one main model that the pairing is proven.

## 6. Not modelled

`PROJECT.json` lists every component. Left out for good:

* text work inside one call: how code is cut out of a reply line by line, how
  repeated blocks are found, GGUF parsing, YAML, columns and layouts of
  reports, the texts of blueprints and chat templates, the privacy gate;
* numbers no property is about: confidence intervals, run times, token speeds,
  measurements;
* the comparison mode of the overview, quality_report, correlation_export;
* sampling research (it fetches and parses web pages) and the sampling
  policy, a chain of look-ups without state;
* one-off patchers, reports, the snapshot of `registry_tool.py`; scripts;
* the translation of settings into llama.cpp's command line;
* the Unsloth provider's own calls (its process follows the same controller as
  llama.cpp), TabbyAPI and the OpenAI-compatible provider, which only ask a
  server somebody else runs;
* the sandbox's isolation, which is the operating system's work.

Two writers of the registry at once are not modelled, see its section above.

## 7. Plan

The modules above are the original plan, with the
registry as one component instead of a separate quarantine. What would add most
next:

1. Theorems: parts of `SyncSettles` (that one step alone is idempotent);
   measures for `Generation` and `LmevalProxy` like `StepsLeft`.
2. Two writers in `Registry`, once the code has something to tell them apart.
3. `Unsloth` against ModelSlot, sharing LlamaServer's controller.
4. Sampling precedence and KV-cache pairs as functions against a reference.

## 8. How to run

    tlc -workers 2 -config MCLauncher.cfg MCLauncher
    tlapm LauncherProofs.tla
