# Verification of eirctl

eirctl is a task runner written in Go: a configuration file names *tasks* (shell
commands), *pipelines* (graphs of stages, each a task or another pipeline),
*contexts* (where commands run, with hooks around them) and *watchers*. This
directory holds TLA+ specifications of how a configuration is loaded and turned
into graphs, and of how pipelines, watchers and containers run, TLC configurations
that check them on small instances, and TLAPS proofs, for every instance, of the
parts that load, run and print, of the env their commands see and of the self update. Line numbers in `PROJECT.json` refer to `src/`.

## 1. Inventory

| Component | State | Operations | Interacts with |
|---|---|---|---|
| Configuration loader and import cache (`internal/config/loader*.go`, `cache.go`) | the imports seen, the merged configuration, cached files and written files shared by all processes | `Load`, `LoadGlobalConfig`, imports of files, directories, URLs and git, file imports with a hash, merge | builders, the home directory, remote servers, ssh |
| Builders (`internal/config/pipeline.go`, `task.go`, `context.go`, `config.go`) | none | definitions to graphs, tasks, contexts | execution graph |
| Execution graph (`scheduler/graph.go`, `denormalize.go`) | nodes, edges `from`/`to`, stored errors under a mutex | `AddStage`, cycle detection, `BFSNodesFlattened`, `WithStageError`, `LastError`, `Denormalize` | built by the pipeline builder, flattened before a run, read and written by the scheduler |
| Pipeline scheduler (`scheduler/scheduler.go`, `stage.go`) | `Scheduler.cancelled` (atomic), `Stage.status` (atomic), one wait group per `Schedule` | `Schedule` (poll loop, a goroutine per stage), `runStage`, `checkStatus`, `isDone`, `checkStageCondition`, `Cancel` | calls `TaskRunner.Run`, `TaskRunner.Cancel`, itself for nested pipelines |
| Task runner (`runner/runner.go`, `executor.go`, `job.go`) | contexts, env, clean up list, `canceling` under a mutex, `doneCh`, the cancelled Go context | `Run`, `Cancel`, `Finish`, `contextForTask`, hooks, `execute`, `storeTaskOutput` | called by many stage goroutines at once; calls contexts, compiler, executors, output |
| Execution contexts (`runner/context.go`) | `onceUp`, `onceDown`, `startupError`, a shared `Env` | `Up`, `Down`, `Before`, `After`, `ProcessEnvfile` | shared by all tasks that name the context |
| Job compiler, env and variables (`runner/compiler.go`, `variables/`, `internal/utils`) | none of their own | `CompileTask`, `compileCommand`, `Merge`, env files | reads the context's shared `Env` |
| Executors (`executor_default.go`, `executor_container.go`) | a shell with its env; a container, its wait and log streams, the image of the shared `ContainerContext` | `Execute`, pull, create, start, wait, drain, remove | the mvdan shell library, the Docker API |
| Task (`task/task.go`) | result fields, captured output under a mutex | getters and setters, `HandleOutputCapture` | written by `Run` and by the output, read by the summary |
| Output (`output/`) | a writer per task, the cockpit's list and spinner under a mutex | header, write, footer, close | stdout, the spinner library |
| Run command (`cmd/eirctl/run.go`, `eirctl.go`) | the process, the signal context | `runPipeline`, `runTask`, the goroutine that waits for a signal | scheduler and runner |
| Watcher (`internal/watch/watch.go`) | `isClosed` under a mutex, `eventsWg`, `finished`, the fsnotify channels | `Run`, `handle`, `Close` | `TaskRunner.Run` and `Cancel` |
| CI generator (`internal/genci`) | none | `Convert` of a denormalized pipeline to a GitHub workflow | execution graph |
| Self update (`selfupdate/`) | the binary and its `.old` | rename, create, download, copy, chmod | the file system, other updates |
| Terminal commands, repository scripts | see `PROJECT.json` | | |

### What is hard here

* **Concurrency without locks.** Statuses are single atomics; the scheduler reads
  the parents of a stage one by one while their goroutines write, writes a status
  before the matching error is stored, and decides that it is done from statuses
  only. An allowed failure is visible as `Error` before it becomes `Done`.
* **Nesting.** A nested pipeline is a `Schedule` inside a stage goroutine, beside
  the loop that owns it, with the same `cancelled` flag and the same runner.
* **Cancellation.** `TaskRunner.Cancel` waits on a channel that only a `Run` closes,
  every `Run` that ends during a cancellation closes it, and Cancel is called both by
  the signal goroutine and by a scheduler loop.
* **Shared contexts.** Tasks that run at the same time share `up`, `down`, the
  hooks and the env of a context; a failed `up` is remembered; the env is read, rebuilt,
  replaced and read again, under a lock only in the middle.
* **Containers.** A job hears of the exit, of the logs' error and of a cancel in one
  `select`; the goroutine of the logs sends on unbuffered channels; any call to the
  daemon may fail; the image name of a context is rendered in place, by jobs that run
  at the same time.
* **Watchers.** A loop, a goroutine per event, the first run of the task and `Close`
  meet in a mutex, a wait group, a channel and the runner's `Cancel`.
* **Early returns.** `Run` has a dozen of them around two deferred calls.
* **Output.** Writes are cut anywhere, a container's output may come after its job was
  given up on, and the cockpit and its spinner lock each other's mutex in opposite orders.
* **Names.** `Denormalize` gives stages the names of their ancestors and finds them again
  by prefix, renames stages of the configuration itself, and shares pointers between clones.
* **Files without transactions.** Cached imports, imported files and the binary itself are
  written in place by processes that may be killed or overlap.

`PROJECT.json` lists the hazards line by line, with the properties that cover them.

### What makes each part correct

* Loader and cache: a configuration is the closure of its imports, each once; a cached
  file is whole; an import is what its entry names; loading ends.
* Graph and builders: no cycles, no pipeline inside itself, the flattened graph has the
  stages of the nested one, with the env and env files they inherit.
* Scheduler: stages start after their parents finished acceptably, are decided once,
  are cancelled only with a cause; `Schedule` leaves nothing running, loses no
  failure at any depth of nesting, and returns.
* Runner: a context is used between its `up` and its `down`; its `After` hook runs
  once on every path; `nil` means that the whole task ran; every `Run` returns.
* Env: a command sees what its task, its context and the tasks before it set, and nothing
  that another task set for itself.
* Cancel: returns after a `Run` ended; never crashes or hangs the process (it can do
  both: see the findings).
* Container executor: `nil` means that the command succeeded; no container is left
  behind; a job ends when its container does; a job runs in the image it asked for.
* Output: complete and in order; a published value is whole; the footer never blocks.
* Watcher: every matching event runs the task; an interrupt ends the command.
* Process: tasks run in dependency order, `Finish` comes after all of them.
* CI generator: the workflow does what a run would, in its order.
* Self update: whatever happens, there is a binary that can be run.

## 2. Modules

| Module | Models | Proofs | Instances |
|---|---|---|---|
| `GitSource` | a git import: the ssh configuration, the host-key files, the commit of a ref | `ConfigLoaderProofs` | `MCConfigLoader` |
| `ConfigLoader` | loaders that share a cache directory and written files, with faults and kills; uses `GitSource` | `ConfigLoaderProofs` | `MCConfigLoader` |
| `ExecutionGraph` | `AddStage`, cycle detection, the lists of stages and their order | | `MCDenormalize`, `MCParts` |
| `Denormalize` | the builders, `Flatten`, `graphClone`, `rebuildFromDenormalized`; uses `ExecutionGraph` | | `MCDenormalize`, `MCParts` |
| `GithubCI` | `Convert` of what `Denormalize` returns | | `MCDenormalize`, `MCParts` |
| `PipelineExecution` | what running a pipeline promises: each stage decided at one point from the verdicts on its parents | | |
| `Scheduler` | `Schedule`, `runStage`, `checkStatus`, `isDone`, `Scheduler.Cancel`; implements `PipelineExecution` | `PipelineRunProofs` | `MCPipelineRun` |
| `RunnerCancel` | the meeting of `TaskRunner.Run` and `TaskRunner.Cancel` | `WatcherProofs` | `MCPipelineRun`, `MCLiveParts` |
| `TaskRunner` | `Run` with all its returns, contexts and hooks, `Cancel`, `Finish`; implements `RunnerCancel` | `TaskRunnerProofs` | `MCTaskRunner` |
| `JobEnv` | the env of every command of concurrent tasks: `contextForTask`, `Run`, the compiler, `ProcessEnvfile`, env files, artifacts | `JobEnvProofs` | `MCJobEnv`, `MCParts` |
| `Output` | `TaskOutput` and its decorators, the cockpit's spinner, captured assignments | `OutputProofs` | `MCOutput` in `MCParts` and `MCLiveParts` |
| `ContainerExecutor` | the jobs of one container context: `Execute`, `execute`, `shell`, `streamLogs`, `checkExitStatus` | `ContainerExecutorProofs` | `MCLiveParts` |
| `PipelineRun` | the process: `Scheduler` composed with `RunnerCancel`, the signal goroutine and `runPipeline` | `PipelineRunProofs` | `MCPipelineRun` |
| `Watcher` | `eirctl watch`: `Watcher.Run`, `handle`, `Close` composed with `RunnerCancel` and the signal goroutine | `WatcherProofs` | `MCWatcher`, `MCLiveParts` |
| `SelfUpdate` | `eirctl update`: the renames and writes of overlapping updates | `SelfUpdateProofs` | `MCParts` |

`map` in `PROJECT.json` gives the lines of every definition. How state and actions
correspond to the code:

* **ConfigLoader.** A document is a sequence of lines, each an import or a definition;
  whether it decodes is a predicate. `proc[p]` is a process with its stack of documents
  (`load` is recursive), what it visited, what it merged (`dst`) and the import it is at.
  `Start`, `ReadFile`, `CacheGet`, `Fetch`, `Store`, `Copy`, `Use`, `StoreImportedFile`,
  `Write`, `ParseImport`, `Return` and `Build` are the steps of a load, each with its
  failure beside it; `Copy` and `Write` write a line at a time at the offset of their own
  descriptor. `Kill` ends a process anywhere, `Publish` is the server's next version.
  What the machine, the servers and the repositories have is `world`, chosen in `Init`;
  `IsWorld` says what a world is, and is all that the proofs assume of one. `spoiled` and
  `torn` are history: the cache files and the written files that two processes had open, or
  that one of them gave up on. `Closure` is the least set closed under imports, so what a load
  should read is said without the order in which the code reads it.
* **Denormalize.** Definitions are data (`config`), ranges over Go maps are choices.
  `BuildStage` and `FinalWalk` are the builder, `Flatten` and `FlattenChildren` the calls
  on the stack `calls`, `RebuildNested`, `RebuildStage` and `Return` those on `frames`.
  A name is a sequence of segments and `StrPrefix` says which segment begins another as a
  string, all that `strings.HasPrefix` can tell apart. `MaxDepth` bounds the recursion
  that has no end in the code: the phase `overflow` stands for it. `GithubCI` adds one
  action, `Convert`, after the end.
* **Scheduler.** `pc[g]` is the place of the loop of graph `g`, `todo[g]` the part of
  `g.Nodes()` this sweep has not seen (a Go map: any order), `unread` and `held` the
  state of `checkStatus`, `go[s]` the place of a stage's goroutine, `wg[g]` the wait
  group, `errors[g]` the stored errors. Every load and store of a status is a step of
  its own: `VisitStarted`, `VisitReady`, `VisitSkipped`, `VisitConditionError` are the
  branches of the loop body, `CheckParent` one parent of `checkStatus`, `StageSucceeds`,
  `StageFails`, `StoreError`, `ForgiveFailure`, `LeaveStage` the goroutine. A nested
  pipeline is `RunPipeline` and `StageReturns` around another loop.
* **TaskRunner.** One `pc` per `Run`; `site` says which of its parts asked
  `contextForTask` for the context. `UpBegins`, `UpEnds`, `UpAnswers` are `sync.Once`;
  `Close` and `Release` are the two deferred functions, in the order Go runs them.
* **RunnerCancel** keeps of the runner what its callers can feel: a `Run` in flight,
  `canceling`, `doneCh`, and the panic of a second close. `PipelineRun` and `Watcher`
  use it in place of `TaskRunner`, which implements it.
* **JobEnv.** A value says who set it. `ctxEnv` is the `Env` pointer of a context,
  `runnerEnv` the runner's. `ReadContext` and `MergeContext` are the unlocked read and
  write of `contextForTask`, `Process` is `ProcessEnvfile`, `Take` the compiler's read
  after the lock, `Execute` a command; `ran` records what every command saw and `met`
  which tasks were at a shared context together. `Rewrite` is the user's editor. A file is
  a fold over its lines (`LinesUpTo`), `ProcessEnvfile` the set of envs the order of a Go
  map allows, and `NextPart` the next part of `Run` that has something to do.
* **Output.** What a command prints is a sequence of atoms that a write may cut, and what
  is written is a range of it: `reader[t]` counts how far it was read (`pos`), captured
  (`seen`) and written (`done`), a line at a time with prefixes (`PieceEnds`). `run[t]` is the
  place of `Run`, `cockpit[t]` the base cockpit of a task with its two mutexes, `sink` what stdout got.
* **PipelineRun.** Steps of `Scheduler` with the outcome of a task bound to the end of
  its `Run`, `Cancel` from a loop and from the signal goroutine, and `Finish`.
* **Watcher.** `starter` is `Watcher.Run`, `loop` its polling goroutine, `handler` and
  `waiter` the goroutine of an event, `closer` the `Close` of the watch command.
  `locked` records the `break` that leaves the mutex locked.
* **ContainerExecutor.** `image` is `ContainerContext.Image`; `Render`, `StoreImage` and
  `Configure` are its unlocked read, write and second read. `Cleanup` may fail with any
  call, and always fails with a context that is done. `WaitFails`, `LogsFail`, `CtxDone`
  and `Exited` are the cases of the `select`; when several are ready any is taken.
* **SelfUpdate.** Names point to nodes, so that a rename moves a file others have open.

A definition whose name contains `Mutant` is a plausible bug, kept beside the operator it
is a mutation of; no specification uses it. `PROJECT.json` says which property detects it.

## 3. Runs

Runs that pass:

| Run | Instance | Shows |
|---|---|---|
| `pipeline_run` | three stages and a pipeline of one or two in one of them, in a process: joins, chains and a short cut, `allow_failure` on a stage before the owner of the pipeline, on the owner and inside the pipeline, conditions with any answer, an interrupt at any time | `DependencyOrder`, `CanceledHasCause`, `ReturnedIsQuiet`, `FailureIsReported`, `FinishAfterTasks`, `RunsInOrder`, `FailureReachesTop`, that `Scheduler` implements `PipelineExecution`; under fairness `HangsOnlyInCancel` |
| `runner` | two tasks, on one context, the default or an unknown one, any hook or job failing, a `Cancel` at any time | `ContextLifetime`, `FinishTakesDown`, `NilMeansComplete`, that `TaskRunner` implements `RunnerCancel`; under fairness `RunReturns`, `CancelReturnsAfterRun` |
| `loader` | one loader over every small graph of files and over ssh configurations and refs; two loaders with a fault or kill over a remote of two versions and over written files | `LoadedIsClosure`, `CacheIsWhole`, `ImportIsAsNamed`, `OfflineOnceCached`; under fairness `LoadEnds` |
| `parts`, env | two or three tasks on contexts they share or not, at once or in order, with conditions, variations, env files, `modify`, `include`, `exclude` and artifacts | `JobEnvIsOwn`, `NoCrossTalk`, `ContextEnvReaches` |
| `parts`, output | two tasks, every format and source of it, writes cut anywhere, late output | `OutputInOrder`, `ExportedIsWhole`, `CrashHasCause` |
| `parts`, generate | families of configurations: three stages with any dependencies, a pipeline used twice, three levels, circles, refused definitions, workflows with `ci_meta` | `EndsAsDefined`, `StagesAreDefined`, `Inheritance`, `WorkflowIsPipeline` |
| `parts`, update | two updates, in sequence or overlapping, a failure or kill at each step | `PreviousIsKept` |
| `live_parts`, watch | one watcher, two matching events and another, an interrupt at any time | `PanicNeedsTwoRuns`, `RerunFollowsRun`, `CloseIsNotLockedOut`; under fairness `InterruptEndsWatch` |
| `live_parts`, jobs | a job and an interactive job of one context, any answer of the daemon, a cancel at any time | `NilMeansSuccess`, `ContainerCleanedUp`; under fairness `JobEnds` |
| `live_parts`, output | one task, with and without the cockpit | under fairness `FooterReturns` |

`parts` and `live_parts` put components side by side that share no state: `part`, chosen in
the first state, says which of them a behaviour is about, and the others stay as they begin.
A property of one component is trivial in the behaviours of another, so such a run says
exactly what one run for each component would. Fairness is asked of the component that
the behaviour is about.

Runs that are violated, each stating what a document or comment of the repository says:

| Run | What is said | What the code does |
|---|---|---|
| `interrupt_panics` | a cancellation "is propagated properly down" (`runner.go:453`) | an interrupt while two tasks run: the second to end closes `doneCh` again (`runner.go:114`) |
| `artifact_lost` | artifacts reach the tasks downstream, across contexts (`docs/artifacts.adoc:8`, `:12`) | a task that shares a named context with the producer of an artifact, or with a task that ran before, gets the value the context kept instead of the published one (`runner.go:157`) |
| `event_ignored` | a watcher runs its task whenever a matching event occurs (`docs/watchers.adoc:5`) | once the first run has ended, the handler of an event waits in `Cancel` for ever (`watch.go:185`) |
| `sibling_stages` | the denormalized pipeline has the same stages and the same layout (`denormalize.go:55`, `:101`) | a pipeline whose name begins that of its sibling gets the sibling's stages too (`denormalize.go:24`) |
| `direct_env_loses` | env specified directly has the highest precedence (`docs/graph-implementation.adoc:183`) | the env of the pipeline stages above is merged over that of the stage (`denormalize.go:120`) |
| `steps_out_of_order` | the order of execution is respected (`githubimpl.go:194`) | the steps of a nested pipeline are sorted by a relation that is not transitive; a step may come before one its task depends on (`githubimpl.go:180`) |
| `global_wins` | the local configuration overwrites the global one (`loader.go:118`) | `mergo.Merge` leaves what the global one has set (`config.go:64`) |

### Exceptions

Many properties name the cases in which the code does not do what one would want, and say
that there is no other. These, and what else the models show of the code as it stands:

* Scheduler: a condition that cannot be evaluated leaves its stage in `StatusError` while
  `Schedule` may answer `nil` (`scheduler.go:67`), and with no task running makes the loop
  wait in `Cancel` for ever (`HangsOnlyInCancel`). An allowed failure in a nested pipeline
  fails the stage that owns the pipeline (`scheduler.go:95`, unlike `README.md:305`).
* Runner: the `Before` hook of a context runs once for each part of `Run` that asks for
  the context (`runner.go:326`).
* Watcher: besides `event_ignored`, a handler whose `Cancel` came in time runs the task, and
  the end of that run is the second close of `doneCh` (`PanicNeedsTwoRuns`).
* Containers: one is left behind when its start, its attach or its logs fail; one removed
  by someone else counts as a success; the first job to render a context's image template
  decides the image of all (`executor_container.go:126`).
* Env: two names that `modify` makes equal, a context's value in a form that was not modified, when tasks met, and every task that met
  another on its context, which may come between `ProcessEnvfile` and the compiler's read (`JobEnvIsOwn`); a condition replaces the env of the shared
  context (`ContextEnvReaches`). Without `reset_context` the later variations of a task on
  the default executor run with the env of the first job (`executor_default.go:92`);
  `include` on a container context always fails, because the default excludes are added
  (`internal/config/context.go:84`); one env file that cannot be opened disables all of them.
* Graph: the two runs above; a stage that `graphClone` has renamed,
  a pipeline that is passed over and used twice, `->` and `root` as names.
* Workflow: a step asks for the task by the name of the stage, so it works only where the
  two agree; names that differ only in characters GitHub does not allow lose a job; of
  the order of steps only neighbours are sure (`StagesAreDefined`), as `steps_out_of_order` shows.
* Loader: a cache file is served for ever even when a kill cut it, as long as it parses; the
  hash of a file import is checked, that of a configuration import is not a thing the code
  has; an import whose source was visited before is passed over with its destination, and two
  imports may write different things to one (`HashedFileIsExact`); watchers of imported files are dropped.
* Output: a write that ends inside an assignment and output after the drain's second
  (`ExportedIsWhole`), the two crashes of `CrashHasCause`, the two locks of `FooterReturns`.
* Self update: overlapping updates can lose the kept release.

### Bounds, and why they are enough

* Stages: a stage is affected by its parents, by the sweep and by its owner. Three stages
  have a join with and without a short cut, and a parent or a child beside the owner of the pipeline, whose
  two stages run side by side or one after the other. The theorems below remove these bounds.
* Tasks and contexts: two tasks meet in one context or not; a third meets no new state
  of `sync.Once`, but for `JobEnv` a third task follows two that met. Two jobs have a
  first and a last.
* Cancels: `doneCh` is closed by one `Run` and closed again by another: two runs and two
  callers reach every state of the protocol. `PanicNeedsTwoRunsHolds` has it for any number.
* Events: one handler waits, a second cancels while the first reruns the task, and the
  event of another kind keeps the wait group busy without touching the runner. Watchers
  share only the runner, in which one watcher's runs and events already meet.
* Jobs of a context share only the image and the Go context: two are enough, one by
  `execute` and one by `shell`.
* Configurations: three levels have an outermost, an inner and an innermost ancestor; two
  uses of a pipeline have a first and a second clone. `MaxDepth` is above the deepest
  configuration without a circle.
* Loaders: two share a cache file or a written file; one fault or kill (`MaxFaults`) lets
  the other find what it left, and a document of two versions is out of date once. Worlds in
  which only the input matters are explored by one loader that meets no fault.
* Output: two tasks share stdout, the runner's env and the process; the cockpit's locks are
  each task's own, so one task is enough for `FooterReturns`.
* Updates: two follow each other or overlap; `MaxName` is above the longest
  chain of `.old`. `PreviousReleaseIsKept` has it for any number.
* `MaxJobs` and `MaxHooks` bound counters that the code bounds itself (the commands of
  a task, the five calls of `contextForTask`).

Deadlock checking is off in every run: all these systems end, and the ends that are not
wanted are what the liveness properties tell apart.

### Fairness

Weak fairness of each goroutine, as the Go scheduler gives it; a goroutine blocked in a
mutex, a channel or a wait group is not enabled. Calls that leave the program (commands,
hooks, the daemon, a server) are steps of their goroutine and so end, except that nothing
makes a container exit. Nothing makes the user interrupt, a file change, a server publish
or `Cancel` be called. Strong fairness is assumed in two places: Go's `select` picks among
ready cases at random, so an event of fsnotify that stays ready is received (`Receive`); and
Go's mutex hands itself to a waiter that waited long, so a task that wants the cockpit's
lock gets it if it keeps becoming free (`Output`). A frame of the spinner is drawn by a
timer that nothing has to fire.

## 4. Proofs

All theorems hold for every value of the constants under the assumptions the modules name:
graphs are properly nested (`NestingAssumption`, and `NestingWellFounded`: `runPipeline`
schedules what `Denormalize` returns, a finite tree of cloned stages; pipelines that refer to
one another make it recurse without end before that), definitions relate stages of one graph
(`DefinitionAssumption`), each task passes `run` and `execute` (`RunnerAssumption`), the
runner's callers are the watchers, their events and the signal (`WatcherAssumption`), what is
loaded says of every value who set it and names contexts there are (`ConfigAssumption` of
`JobEnv`), an assignment is printed in one go (`ConfigAssumption` of `Output`), releases
differ from an error page (`UpdateAssumption`), and a world is one (`WorldAssumption` of
`ConfigLoader`: imports name what has a kind, directories list files, a commit has a
document). Those of `Output` and `SelfUpdate` are plain definitions, because the runs take
these modules by `INSTANCE`, under which TLC evaluates no `ASSUME`; their theorems have them
as a hypothesis (`UpdateAssumption /\ Spec => ...`), and `MCParts` and `MCLiveParts` assume
them of their instances. The others are an `ASSUME` of their module. So TLC evaluates all of
them on the instances of the runs. `JobsAssumption` of `ContainerExecutor`, that the names of
images differ, is asked of the run only: no proof needs it.

An invariant that a run checks is seldom inductive. For each module below `IInv` (or
`WatchInv`, `RunInv`, `NestInv`) is the strengthening that is, and one theorem says that it
always holds; the properties follow from it.

* **PipelineRunProofs.** First `Scheduler`. Its properties are not inductive by themselves:
  that a stage is started after its parents needs what `checkStatus` knows half way through
  reading them (`CheckKnows`), and that nothing a parent writes later takes it back
  (`VerdictStable`: `Error` of an allowed failure and the `Done` that follows both pass).
  `IInv` adds where a goroutine can be for each status (`GoStatus`), what the wait group holds
  (`WaitGroup`), that a loop which is left has decided everything (`DecidedAfterLoop`), that
  an owner waits for its pipeline (`OwnerWaits`), and that errors are stored before a
  goroutine leaves (`ErrorStored`, `NilHasNoError`). One lemma per part; then the properties,
  the action property `StatusMovesForward` and the refinement. A last part is about nesting: a
  failure at any depth reaches the top. It needs that an answer is carried by the owner's
  goroutine (`AnswerCarried`), and the well-foundedness of nesting: among the stages whose
  failure is lost, one is outermost. Last, the process: a run of it is a run of `Scheduler`
  and of `RunnerCancel`, so their theorems carry over; `FinishAfterTasks` and `RunsInOrder`
  hold.
* **TaskRunnerProofs.** `UpOnce`, `Prepared`, `Listed` and `Finishing` for the contexts,
  `Progress`, `Complete` and `HookCount` for what a `Run` has done by where it is; then the
  properties, and that `TaskRunner` implements `RunnerCancel`.
* **WatcherProofs.** First `RunnerCancel`: `doneCh` is closed only by a `Run` that returned
  while cancelling, and a panic needs a second. Then `eirctl watch`, which is a run of
  `RunnerCancel`. Only a `Close` past its critical section has set `isClosed`
  (`ClosedByClose`), so the `break` that keeps the mutex cannot shut `Close` out. A `Cancel`
  that returned found `doneCh` closed (`ReleasedByClose`), so a rerun, which comes after its
  own `Cancel` (`RerunAfterCancel`), can only end by closing it again.
* **ContainerExecutorProofs.** An invariant of one job, `JobInv`: what there is of its
  container and logs by where `Execute` is (`PlaceOf`), and that an exit code comes with the
  end of the command (`CodeAtExit`). A step of a job touches nothing of another's but the
  image, so the invariant of all jobs follows.
* **JobEnvProofs.** Every value says who set it, so that a task gets nothing of another's is
  an invariant of all the envs there are: those of the contexts, what was read of them, what
  `Run` put together, the compiled jobs and the interpreters (`Separate`), and of the runner's
  env, in which there are arguments and artifacts only (`RunnerClean`). What a command sees of
  its own is followed through `Run`: the env it builds has what the task sets (`EnvOwn`),
  between `ProcessEnvfile` and the compiler's read the context has what was computed for this
  task if no other has met it there, and so does every job (`JobsGood`, with `Good` for what
  survives an overlap). What the context sets is there as long as no condition was compiled in
  it (`ContextKept`). `Meeting` says that tasks which use one context at the same time are in
  `met`. The lemmas about the operators come first: what merging, reading a file, one file
  after the other, `modify` and `ProcessEnvfile` keep of the names and the provenance of what
  they are given.
* **OutputProofs.** All of `IInv` but `Published` is about one task, and a step of one task
  leaves the others' parts alone. The three counts of the reader are in order and the reader
  outlives the job only when it was given up on (`InStep`); a write or a line ends inside an
  assignment only if it is one of those in `cut` (`CutsKnown`); so what is captured is an
  assignment, whole if it was not cut (`Latest`), and no later one was passed over
  (`AllCaptured`). `storeTaskOutput` has published a name or has it still before it
  (`Publishing`), and what was published stays what it was (`Published`). What stdout has ends
  where the reader's writes end (`Sunk`), and a footer finds a spinner if there was a header
  (`Spinning`).
* **SelfUpdateProofs.** `FilesApart`: no two names are one file. An update that nothing
  overlaps finds the files as it left them (`Undisturbed`), which is the first half of
  `PreviousIsKept`. The second half, for updates that overlap and all succeed, needs to know
  who makes the binary: of those that renamed it one at most is about to create it
  (`OneCreates`), and what has its name is a release that nobody has open or is being made by
  one update alone (`BinaryIsMade`).
* **ConfigLoaderProofs.** What is said of one loader (`LoaderOK`) is a predicate of the world
  and its record, so no step of another touches it. `Walk` is the recursion of `load`: every
  frame has collected what the documents below it define (`FrameOK`), each frame was asked for
  by the one under it, and every import of a document that was read is visited or is still to
  be taken by some frame (`Covered`). When the last frame has nothing left, the documents that
  were read are closed under imports and reached from the root, which is `Closure`; the lemmas
  about `Closure` (least, closed, growing with what is read) carry that over from the global
  file to the local one (`GlobalDone`, `Loaded`). The cache and the disk are about all
  loaders: of a file that is not in `spoiled` or `torn` there is one writer, and the file is
  as long as that writer has come (`CacheOK`, `DiskOK`). `VisitsMet` says that a visited
  source was asked for and its destination is written, from which `HashedFileIsExact` follows.
  `Knows` has what a loader knows of the body in its hands: a version, a commit, a content
  whose hash was compared. `OfflineOnceCached` is a property of steps: no step leads to
  `fetch` from a cached document that parses (`GoesIs`, `SidesAre`).

Attempts that failed corrected the models and the properties. Some `CASE` arms in `JobEnv`
overlapped (`Take`, `Seen`, `RunsVariation`): TLC takes the first, but TLA+ leaves the choice
open, and the proof could not. `JobEnvIsOwn` and `ContextEnvReaches` held in the runs only
because no instance had a name `modify` makes equal to another in each role, or a task that
restores an env between two steps of another; both are exceptions they now name.
`HashedFileIsExact` held in the runs only because no world had two imports of one source or
one destination that differ, which is the case it now leaves out (`Alone`), and
`LoadedIsClosure` because none had a global file that imports the local one, which is then
loaded again; the worlds of `MCConfigLoader` have both now.

Four of the theorems (`StatusMovesForwardHolds`, `NestedInsideOwnerHolds`,
`AfterRunsOnceHolds`, `CancelWaitsForRunHolds`) state properties that no run repeats. The type
invariants are proved as parts of the inductive ones.

Only model-checked:

* every liveness property: `HangsOnlyInCancel`, `RunReturns`, `CancelReturnsAfterRun`,
  `InterruptEndsWatch`, `JobEnds`, `LoadEnds`, `FooterReturns` (fairness and `ENABLED` are
  beyond the prover);
* `EndsAsDefined`, `StagesAreDefined`, `Inheritance` and `WorkflowIsPipeline`, and the
  properties of the violated runs about them: they say what recursive operators of
  `ExecutionGraph`, `Denormalize` and `GithubCI` compute, which needs induction over data.

Where a proof needs an induction over numbers only, as for the lines of an env file, the
function is written `f[i \in 0 .. n]` and the property is given to the lemma `Induction` as a
set of numbers, which the provers can instantiate. The same is done with the least element of
a set of numbers in `ConfigLoaderProofs`. `Zenon` in a leaf names the prover that finds it,
which keeps a proof run short.

## 5. Not modelled, and what is left

Not modelled: the arguments a container context is turned into, registry authentication and
terminals; variables beyond what they share with env, templates (but for the image of a
context) and the arguments after `--`; the shell library and the timeout of the default
executor; `runTask`, which returns without `Finish` when its task fails, and the watch
command, which never calls it (`cmd/eirctl/run.go:189`, `watch.go:49`); YAML types and their
decoding; failing writes to stdout; listings, prompts and graphs for the terminal; build
scripts of the repository. `PROJECT.json` gives the reason for each component.

What is worth adding next:

1. That what `Denormalize` returns satisfies `NestingWellFounded`, which the proofs about
   nesting assume; so far TLC shows it on the configurations of `parts` (`EndsAsDefined`,
   `StagesAreDefined`).
2. The task's timeout against a command that ignores it, and `runTask` as a process of its
   own.
