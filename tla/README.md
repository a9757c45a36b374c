# buildflow in TLA+

TLA+ models of [buildflow](../src/README.md), the task runner in `src/`, with
the TLC configurations that check them and TLAPS proofs of the properties that
matter most. Paths below are relative to `src/`; `phase.go`, `controller.go`,
`task.go`, `env.go` and `expand.go` are in `pkg/controller/`.

Contents: 1 the system, 2 the modules and how they correspond to the code,
3 what the runs check, 4 what is proved, 5 what the code does against its
documentation, 6 what is not modelled, 7 what comes next.

## 1. The system

`buildflow run` reads a YAML configuration and runs its *phases* one after the
other. A phase is a list of *tasks* (a command, a file to read, a file to
write) that run concurrently, subject to their dependencies and to a limit on
how many commands run at a time. Conditions (skip, exit, fail, when) are
constants or Tengo scripts over the state of the build.

| component | state it keeps | operations | talks to |
|---|---|---|---|
| build controller (`controller.go`, `cmd/buildflow/main.go`) | `params.Phases`, the phase it is at, the exit code | `Run`, `runPhase`, `checkSkipPhase`, `getPR`, `getParams`, `ReadExternalFiles` | the phase scheduler by the queue and the shared map; GitHub and the files by calls |
| phase scheduler (`phase.go`) | the list of task results, what each task's goroutine does | `Phase.Run`, `RunTask`, `runTask`, `IsReady`, `PrepareTask` | the event queue, the task queue, the map `params.Phases` |
| event queue (`phase.go:33-66`) | a channel, a `closed` flag, a mutex | `Push`, `Close`, `range` | the loop, the canceller, the task goroutines |
| task queue (`phase.go:68-92`) | a channel used as a semaphore | `push`, `pop` | the task goroutines |
| signal (`pkg/signal`) | the context of the build | `Handle` cancels once | the canceller of each phase |
| pull request files (`pkg/github/client.go`) | the files so far, the page | `GetPRFiles`, `GetPR`, `ListPRsWithCommit` | the GitHub API |
| command execution (`pkg/execute`, `task.go`) | three buffers | `Executor.Run`, `Task.Run` | os/exec, the timeout library |
| output prefix writer (`pkg/execute/writer.go`) | none | `Write` | the user's terminal; `io.MultiWriter`, which needs its count |
| configuration (`pkg/config`) | the tree read from YAML | `Set`, `setEnv`, `setDefault`, `SetType`, `Bool` | every other part reads it |
| items (`expand.go`, `config/item.go`) | none | `Expand` | `getPhase` |
| environment, templates, scripts (`env.go`, `pkg/template`, `pkg/expr`) | none | render, match, run | the phase scheduler |
| files (`pkg/file`) | none | `Read`, `Write` | `Task.Run`, `ReadExternalFiles` |
| command line (`pkg/cli`, `config/read.go`) | the configuration file | `init`; `run`: the search for the file, its decoding, the imports, the options | the files of the user, other processes `buildflow init`, the controller |

### How they interact

`run` searches for a file, decodes it, replaces the entries that import phases or
tasks by what the files they name hold, and lets options, configuration,
environment and defaults each fill what is still empty. `Controller.Run` then
reads the files that tasks name, expands the items of each phase when it gets
to it, and calls `runPhase`.

`Controller.runPhase` makes a list of tasks, an event queue with one place for
each task and a task queue, pushes a first event, starts a goroutine that
closes the event queue when the context is cancelled, and ranges over the
event queue. For each event `Phase.Run` visits every task in order; a task in
status `queue` that is ready is set to `running` and gets a goroutine. That
goroutine takes a token, runs the command, gives the token back, writes its
result into the list, evaluates its output, writes its result again and pushes
an event. When all tasks are finished, or some are left and none runs, the
event queue is closed, the range ends once it is drained, and the phase's
`fail` and `exit` conditions are evaluated.

### What is hard

* **Concurrency.** The list of results is written by the event loop *and* by
  the goroutines, both from copies they took earlier. `params.Phases` is a Go
  map written by the loop and iterated over by goroutines, with no lock.
* **Ordering.** Readiness, completion and "nothing runs" are decided by reads
  that goroutines overtake; a success is published before its output exists;
  a signal may close the queue between any two steps.
* **Blocking.** `Push` sends while it holds the mutex that `Close` needs.
* **Lifetime.** A closed queue is still drained, and its events still start
  tasks; the goroutines of a phase outlive it.
* **Failure.** Any preparation step, script or command may fail, and the
  statuses and the exit code must still agree; the terminal may fail in the
  middle of a chunk, with the other stream and the command still going; the race
  on `combinedOutput` may end the copying of a stream, or buildflow.
* **Boundaries.** The last page of a list of files, a phase without tasks, an
  `items` list that is empty, a terminal that takes less than the prefix.
* **Layers.** A condition has three states (a constant, a script, not set), and
  five functions in three packages assign to it; the order they run in decides
  if what the user wrote survives. The type and the shell of a command are decided
  before the file with its text is read. Imports change the list that is
  being gone through.
* **The file system.** `init` looks and then writes, without a lock, beside the
  user, another `init` and a `run` that reads.

### What makes each component correct

* Scheduler: no more than `parallelism` commands at a time; no task started
  twice or before the tasks it depends on are over; the loop is woken whenever
  there is something to do; success only if no command failed; it ends, when
  cancelled at the latest.
* Event queue: no send on a closed channel, no second close, no deadlock on the
  mutex, every event is received.
* Build: phases in order and once; a failed phase shows in the exit code; it
  ends, and a signal ends it.
* Pull request files: each file once.
* Command execution: scripts get of a stream the chunks the user has seen whole,
  and all that was written to it if its copying came to the end.
* Configuration: every condition means what the user wrote, and its own default
  where he wrote nothing; imported entries stand where their import stood;
  settings come from the first source that has them; a build starts only with
  phases of different names and tasks that can be run.
* Items: one task for each item, in the order of the list.
* Command line: the nearest file is read; `init` destroys nothing that was there
  when it looked, and says it is done only if a file is.

`PROJECT.json` lists the hazards line by line with the properties that cover
them.

## 2. The modules

```
TaskGraph  <--implements--  Phase  <--extends--  Build  --implements-->  Pipeline
                              |                    ^
                              | takes Push and     | begins with the configuration
                              | Close for steps    | that ReadyToBuild describes
                              v                    |
Channel    <--implements--  EventQueue           Load  --extends-->  Config
                                                   |
PRFiles    CommandOutput  (on their own)           +-----extends-->  ConfigFile
```

`MCPhase`, `MCBuild`, `MCPRFiles` and `MCLoad` hold the sets of configurations the
`.cfg` files name. The proofs about `X` are in `XProofs`: `PhaseProofs`, `BuildProofs`,
`EventQueueProofs`, `PRFilesProofs`, `CommandOutputProofs`, and `LoadProofs`, which extends
`ConfigProofs` and `ConfigFileProofs` as `Load` extends `Config` and `ConfigFile`.

### Phase: the scheduler of one phase

| variable | code |
|---|---|
| `cfg` | the phase's configuration, one of the constant `Configs`, fixed by `Init` |
| `status` | `Result.Status` of each task in the `TaskList` all copies of the phase share |
| `queued`, `closed` | `len(EventQueue.Queue)`, `EventQueue.closed` |
| `tokens` | `len(TaskQueue.queue)`; there is no channel if `parallelism` is 0 or less |
| `main`, `idx` | where `runPhase` / `Phase.Run` / `RunTask` are, and the index of the scan |
| `gor`, `res` | where each goroutine `runTask` is, and its own copy `task.Result` |
| `ctx` | the context, which `signal.Handle` cancels |
| `verdict` | `Phase.Status` after the `fail` condition |

A step is the code between two accesses to shared state. The actions are those
of the code in its order: `PushFirst`, `Receive`, one of the `RunTask...`
actions per task, `AllFinished` / `NoRunning` / `StillRunning`, `WritePhase`,
and after the loop `WriteLast` and `EvalFail`; and for a goroutine `Acquire`,
`CommandSucceeds` / `CommandFails`, `Publish`, `Output`, `Final`, `PushEvent`.
`RunTask` writes its copy of the task back in a deferred `Set` *after* it has
started the goroutine: `RunTaskStart` and `DeferredSet` are two steps for that
reason.

Three abstractions:

* `Phase.Run` begins with a snapshot of the list. The model reads `status` when
  the scan gets to the task. Only the scan moves a task out of `queue`, so the
  snapshot says `queue` of a task exactly when the list does, and no other
  status of the snapshot is used.
* The statuses read at the end of `Phase.Run`, and by `IsReady`, are read in one
  step. The code reads the list under its lock in `GetAll` at the end; in
  `IsReady` it reads one name after the other, but "finished" is stable
  (`SettledStable` in the proofs), so that a later answer is never less true.
* A script or a template is the set of its outcomes (true, false, error). Tengo
  and text/template are libraries, and scripts may look at all of the build.

The race on `params.Phases` is the action `Crash`, enabled while the loop is
about to write the map and a goroutine is about to iterate over it; the Go
runtime *may* notice.

`Init` is the state `newPhase` leaves; the context may have been cancelled during
an earlier phase. `N` may be 0 (`items` that expand to nothing), which
`Phase_no_items` shows to hang; the passing runs have tasks.

**TaskGraph** is what a phase promises: a job is taken up at most once, after
the jobs it comes after are settled, and never once the phase is over.
`ImplementsTaskGraph` maps a task to `active` while its goroutine waits for a
token or runs its command, and to `settled` afterwards, whatever the list says.

### EventQueue: Push and Close from the inside

`len` and `chanClosed` are the channel as the Go runtime sees it, `closed` is the
flag, `mutex` its holder, `pc` where the loop, the canceller and each task
goroutine are. `Lock`, `Enter`, `Send`, `CloseChan` and `Unlock` are the steps of
the two methods; `EndOfRun`, `StartTask` and `ContextDone` call them under the
conditions that matter for the protocol (the loop may close at the end of any
scan, any goroutine not started may be started by a scan). A send on a closed
channel or a second close goes to `panicked`.

**Channel** is the queue that `Phase` takes for granted: a bounded counter, and callers
that are each in at most one call. A call is invoked (`Invoke`), takes effect in
one step (`Push`, `Close`) and returns (`Return`). `ImplementsChannel` maps a process to
the call it is in by `CallAt`: the call takes effect at `Send`, at `CloseChan`, or in
`Enter` when the flag is set. That it may be taken for one step is what the mutex
and the flag are for. Without the mutex two processes can be past the test of the
flag, and the second panics or sends after the close; `panicked` maps to a call that no step
of `Channel` leads to, so that a panic refutes the refinement. `EventQueue.Pop` is
called by nothing and left out (it would receive while holding the mutex).

### Build: Controller.Run around Phase

`Build` extends `Phase`: the variables of `Phase` are those of the phase the build
is at. `at` is where `Run` and `runPhase` are; `ph` is the `Phase` value
`runPhase` returns, with what `Run` does next (go on, exit early, stop with an
error, panic); `result` is the status of each phase in `params.Phases`; `past`
holds the goroutines and results of phases that are over, with `Late` for their
steps. `Prepare` is each of `getPR`, `ReadExternalFiles`, `getParams` and the skip
condition, which go on or end the build. `BlockInPush` is a phase whose items
have expanded to no task: the channel has no capacity, and `runPhase` is
`blocked` in its own first `Push` with the mutex in its hand, before the canceller
exists. `NewPhase` resets the variables of
`Phase` in the step that ends a phase, so that each phase has its own list,
queue and tokens, as in the code. `condition` says if the build's `fail`
condition is the default script or one of the user's. A late goroutine's last
three steps are one: its queue is closed, and nothing tells them apart but the
iteration over the map, which comes first.

**Pipeline** is the promise: phases start in order and once, and with the default
condition a build with a failed phase does not succeed.

### PRFiles: GetPRFiles

`size` is the number of files an earlier request answered, `total` the number of
files now; `PerPage`, `ShortPage` and `n` are the arithmetic of the loop. `Page` is
the GitHub API (external): pages of the size the request asks for, of 30 if it
asks for none. `GetPageFails` is an error, on which the build fails.

### CommandOutput: Executor.Run and Writer.Write

os/exec copies each stream in a goroutine. Each is a `MultiWriter` to the terminal
(the standard output of buildflow, perhaps a file on a full disk), to a buffer
of its own and to `combinedOutput`, a `bytes.Buffer` both share. It stops at the
first writer that fails or does not take the whole chunk, and with it the
goroutine (`broken`).

| variable | code |
|---|---|
| `written` | how many chunks the command has written to each stream (external) |
| `shown`, `seen` | how many of them the terminal has shown whole, and if it took the whole of the last, a part or nothing |
| `echoed` | if the terminal has shown the line `+ sh -c ...` |
| `buf` | `bufStdout`, `bufStderr` |
| `array`, `len`, `pos` | the slice in `combinedOutput`, its length, and where each goroutine is about to copy to |
| `pc`, `main` | where each goroutine and `Executor.Run` are |

`Show` is `Writer.Write`: the terminal takes any `n` of the `Bytes + Prefix` bytes, and
`Count` is what the method returns of them; `Taken` is what the user sees. `ReadLength`,
`Extend` and `CopyToCombined` are the three accesses of `Buffer.Write` (external): it
reads the length `m`, extends the slice and copies to `b.buf[m:]`. The other goroutine
may have cut the slice in between, since it extends it from the length it read
earlier. Cut to `m`, the copy takes nothing, which `MultiWriter` makes a short write, on
which the goroutine ends (`ShortCopy`); cut below `m`, the slice expression panics
and with it buildflow (`CopyPanics`, `main = "panicked"`). A chunk is one write and
takes one place of a buffer. Left out are the growing of the slice, by which a
chunk copied to the old array is lost as one that is written over, and the
reading of a slice header half written. `Start` and `Wait` are the two halves of `Executor.Run`,
`dry` its return in a dry run and `not started` a command that cannot be started.

### Config: what the file says and what becomes of it

Operators without state, one for each function of `pkg/config` and `expand.go`. A
raw phase or task is what the file says; a decoded one keeps it as `src` and
has a field for each thing a later step assigns. `Bool` has the four fields of
the Go type; a script is only where it came from (the user, a file, the
default). `UnmarshalBool`, `SetDefaultBool`, `SetBoolProgram` and `Means` (`Match`) are
its methods, `DefaultTask` and `DefaultPhase` the loops of `setDefault`, `SetShell` is
`Command.SetDefault`, `TypeOf` `SetType`, `Acceptable` the checks of `Set`. `Expand` gives
the keys of the tasks a list, a map (in any order), a script or another value
makes, or an error. `RawTask` and `RawPhase` are the tasks and phases a file can
decode to. `Names` is what a name, a path, a shell or an owner can be (the empty
string, which is "not set", among them), `MaxItems` how many items a list or a
map has at most: any number, but one.

### ConfigFile: the files of a directory

`disk` is what the two names in the working directory and the place above them
hold; `ipc` and `iseen` are each `buildflow init` and the files it could have
found when it began; `at`, `place` and `rseen` the same of `run`. `StatYml`, `StatYaml`,
`Create` (`WriteFile` truncates) and `Write` are the steps of `initAction`, each a system
call; `Write` may write less and fail, and may write into a file the user has
renamed away or saved into. `UserSaves` is the user. `Begin`, `Find` and `NotFound` are
`FindAndRead`.

### Load: from the file to the tasks

Extends both. `doc` is the file as it was read, `conf` the configuration with
every assignment made so far, `k` the phase a loop is at, `expanded` the tasks of
each phase. The actions are those of the code in its order: `Read`,
`ImportPhase`, `ImportTasks`, `Set` (with `SetCLIArg`, `SetEnv`, `SetDefault`), `ReadFiles`,
`ExpandPhase`, and for each the error. `Document` is what a file can decode to, and
`LoadAssumption` says that `Inputs` and the files to be imported are such, that a
text file holds some text or none, and that only a CI platform that is there
knows an owner. A file that is imported is decoded without
`SetStrict` and what it imports is left as it is. `input` is the user's file, the
sources of owner and token that are set, and the disk at first. `SetEnv` assigns
the owner a third time, to `cfg.Env.Owner`, which nothing reads; it is left out. `ExpandPhase`
stands for `getPhase` at its turn in `Build`, with nothing of the phases run
between two of them.

## 3. What the runs check

| run | instance | distinct states | shows |
|---|---|---|---|
| `Phase_graphs` | 2 tasks, 1 token, every dependency graph over their names and an unknown one, one or two names, scripts, type `http`, default or custom `fail` | 359 000 | `TypeOK`, `ParallelismBound`, `NoBlockedPush`, `DependencyOrder`, `NoLostWakeup`, `VerdictSound`; `StartedOnce`, `ClosedWhenIdle`; `ImplementsTaskGraph`; under fairness `CancelEnds`, `EndsOrStuck`, `EveryTaskTried` |
| `Phase_shapes` | 3 tasks, 2 tokens: chains listed in order and against it, join, fork, none, a phase without a name, two tasks of one name | 1 475 000 | `IInv`, the invariant of the proofs, which implies the safety properties: tokens shared among more tasks than tokens, `DependencyOrder` in chains, a join and a fork |
| `EventQueue` | 3 task goroutines | 2 700 | `NoPanic`, `NoBlockedSend`, `ImplementsChannel`; under fairness `CloseCloses`, `EventsDrained` |
| `Build` | 2 phases of 1 task | 205 000 | `BTypeOK`, `ExitCodeSound`, `ImplementsPipeline`; under fairness `CancelEndsBuild`, `BuildEnds` |
| `PRFiles_pages` | page sizes 100 and 30, 17 sizes on both sides of 1, 2 and 3 pages | 1 000 | `SmallPRComplete`, `PrefixComplete`, and in `TypeOK` that no page past the last is asked for |
| `CommandOutput_streams` | up to 3 chunks for each stream, a terminal that takes any part of a chunk | 50 300 | `ShownIsKept`, `StreamsComplete`, `OneStreamCombined` |
| `Load` | 200 configurations, up to 2 items; two `init`, the user and `run` on three places for files | 246 000 | `InitHonest`, `FindsNearest`, `OnlyNewFilesLost` of the files; `ImportsSpliced`, `ConditionsMean`, `ReadyToBuild`, `SettingsFromFirstSource`, `ExpandedInOrder` of the configuration |

The five `violation` runs of `PROJECT.json` are section 5.

**Why the bounds are enough.** With two tasks the scan has a task behind it and
one in front of it; a self-dependency, a cycle of two, an unknown name and two
tasks of one name all occur; one token for two goroutines makes one wait. The
third task adds a dependency on two tasks, a task in the middle of a scan, and
more goroutines than tokens while two of these are out. In `Build` two phases are
the least that has a phase after another, and one task is enough for a
late goroutine: it outlives its phase when the context is cancelled. A late
goroutine of a phase that was *not* cancelled needs two tasks, one against the
order of the list (`Build_parallelism`). The properties are proved for every `N` where section
4 says so. Three chunks let one goroutine write while the other is between any
two of its steps, before and after a first collision. A chunk of two bytes
behind a prefix of three lets the terminal fail within the prefix, at its end,
within the chunk and at its end, and makes `Bytes < Prefix`, without which a count
that forgets the prefix could not be told from a full chunk.

In `Load` the conditions do not depend on one another, so each is given all six
things a file can say of it with the others not set, and `when` each of them with
no file, a file with a script and an empty file. Two entries in a list are
enough for an import before, after and beside any other entry; every pair of an
entry of this file, one that imports, one that clashes with a file's, one
without a name and one whose file is gone occurs. Every pair of kinds of items
stands for any list of them, since tasks are expanded one after the other; two
items are enough for an order (`MaxItems`). Every
set of sources of the owner, and every one of the token, is there with and
without a value in the file. Two `init` are needed for one to see the file
another has only begun; all eight starting disks are combined with a document
that loads and one that does not, and every document with one disk, for what
the file says has no effect on which file is read.

Nothing in the models is cut off by a counter: every state space is finite as
it is, and `Chunks` is the only size that stands for an unbounded one.

**Deadlock** is checked but for the event queue, where goroutines may never be
started and the range may wait for an event, and for the violation runs. In
`Phase` and `Build` the end of the phase or the build is a step of its own
(`Terminated`), in `Load` `Over`. A build that is `blocked` (`BlockInPush`) is
left to stutter there as well, so that TLC goes on to what else may happen; that
it never ends is what `BuildEnds`, `CancelEndsBuild` and `SignalEndsBuild` say
of it. A task that is stuck (below) does not deadlock the model, for a signal
may still come; `EndsOrStuck` and `CancelEnds` say what is left of termination,
and `PhaseEnds` is violated. `BuildEnds` composes it: whatever fails, every
build ends but for a stuck task and the empty phase, for no step of `Run`
repeats and each phase ends by `EndsOrStuck`.

**Fairness.** Weak fairness of the event loop, of the canceller and of each task
goroutine: the Go scheduler runs what can run. That a command ends is part of
it, since `Task.runCommand` gives each one a timeout, an hour if none is
configured; scripts have neither a timeout nor the context and are assumed to
end. A goroutine that waits for a token gets one because no goroutine ever takes
a second token: weak fairness suffices, and `CancelEnds` and the others do not
depend on the order. No signal need arrive, the race need not be noticed, and
the tasks' goroutines of a phase that is over need not go on. In `EventQueue` weak
fairness of `Lock` is enough, as a goroutine pushes once and `closed` stops the
rest.

Every property of a passing run is paired in `PROJECT.json` with a mutant, a
plausible bug in one definition (a token not taken, a guard dropped, a `Set`
that writes another status, an event not pushed) under which TLC finds the
property violated. The mutated forms are the operators named `...Bug`, which
nothing uses.

## 4. What is proved

The theorems are about `Spec` for every value of the constants allowed by the
named assumptions: `PhaseAssumption` (`N` a natural number, `Parallelism` any
integer, any set of well-formed configurations), `BuildAssumption` (any number of
phases), `EventQueueAssumption` (a finite, non-empty set of goroutines),
`CommandOutputAssumption` (at least one chunk, and neither a chunk nor the prefix is
empty), `PRFilesAssumption` (a page of the API's default size is smaller than the
largest page), and for `Load` `ConfigAssumption` (a name may be empty and an item is
allowed), `ConfigFileAssumption` (`-c` names one of the places) and `LoadAssumption`
(every document and every file that is imported is one that can be decoded, and
"main" is a name, for the template of `init` has it).

**PhaseProofs.** `IInv` is inductive. `TypeOK` alone is not: that a returned token is
there needs `TokenCount` (a token for each running command), that the channel
never exceeds its capacity needs `QueueCount` (the first event is received
before any goroutine exists; each later one belongs to a goroutine that is
done), and `QueueCount` needs `StatusInv` (a task in `queue` has no goroutine, so
that a start never reuses one). `DependencyOrder` follows since "settled" is
stable and `IsReady` asks for tasks whose status is final; `StatusInv` excludes
that a final status belongs to a command still running. It says of a name no task has
that its dependents are never started: the `failed` that `IsReady` writes to a copy is
lost, but so is the way to the task's goroutine. `WakeInv` carries
`NoLostWakeup` from the end of the scan to the wait. `VerdictSound` needs that the
loop closes the queue only when all tasks are finished for good, which is `CloseInv`, by way of
`ScanInv` (without dependencies the scan leaves no task behind in `queue`), and
`FailureInv` (a failed command is never written as a success). Each conjunct has a
lemma that assumes the conjuncts it needs, one step per action; `Inductive` puts
them together. From it: `TypeOKHolds`, `ParallelismBoundHolds`,
`NoBlockedPushHolds`, `DependencyOrderHolds`, `NoLostWakeupHolds`,
`VerdictSoundHolds`, the action properties `StartedOnceHolds` and
`ClosedWhenIdleHolds`, and the refinement `ImplementsTaskGraphHolds`.

**EventQueueProofs.** `IInv`: the mutex is held by the process inside `Push` or
`Close` (`MutexInv`), so the flag agrees with the channel except between
`close(queue.Queue)` and `queue.closed = true` (`ClosedInv`), and the channel
holds at most one event for each goroutine past its send (`LenInv`). From it
`TypeOKHolds`, `NoPanicHolds`, `NoBlockedSendHolds`. The refinement
`ImplementsChannelHolds` needs it too: `CallsImplement` maps each step inside `Push` and
`Close` to a step of `Channel`, by `ClosedInv` and `MutexInv` where one reads the flag, sends
or closes, and `CallersImplement` maps the steps of the callers to invocations,
receptions and stutters.

**BuildProofs** extends `PhaseProofs` to a build of any number of phases. `BIInv` has
four parts. `ScheduleInv`: the variables of `Phase` satisfy `IInv` at every step of the
build; a step of the scheduler keeps it by `Inductive`, and the end of a phase makes it
true again by `Initial`, since `NewPhase` leaves an initial state. `RunOK` is types.
`OrderInv`: every phase before the current one has a status and none after it. `ExitInv`
carries the verdict on: a phase that is over is recorded as failed or has nothing
left that could fail it (`Clean`), which is `VerdictSound` at the moment the phase ends,
and stays true while the goroutines it left behind go on (`Late`), because without
a cancellation there are none that still have a command to run. From it
`BTypeOKHolds`, `ExitCodeSoundHolds` and, with one lemma for each step of `Pipeline`,
the refinement `ImplementsPipelineHolds`.

**CommandOutputProofs.** `IInv` counts chunks: those shown, buffered, added to and copied to
the shared buffer differ by where the goroutine is. `FlowInv`, which also says when
what the terminal took of the last chunk (`seen`) may be less than the whole, and `BufferInv`
give `ShownIsKeptHolds`, for chunks and a prefix of any length: the
only count that `MultiWriter` accepts is that of a whole chunk (`AcceptedAll`). The
race makes `TypeOK` the hard part: the length of the shared buffer is set from a position
read earlier and may go *down*, so it has no closed form; `LengthInv` bounds it, and every
stale position, by what has been added altogether. `AloneInv`, the part for a
command that writes to one stream only, has equalities in place of these bounds: no
position is stale then, so that neither the short write nor the panic can happen. It
gives `OneStreamCombinedHolds` and, with `FlowInv`, `StreamsCompleteHolds`: a
stream's copying ends early only by the terminal or by the other stream.

**PRFilesProofs.** `TypeOKHolds`, `PrefixCompleteHolds`, `SmallPRCompleteHolds`, for
every page size and every number of files.

**ConfigFileProofs**, for any number of `init`. `FInv` is inductive: no file goes away
(`FilesStay`), so what an `init` or `run` has seen is still there (`SeenInv`,
`SearchInv`), and only an `init` that still has the file open, or failed, leaves a
partial one (`ContentInv`). `FStep` is a step of `ConfigFile` or any step that leaves the
files alone and does not take `run` back to its start, so that the lemmas hold in `Load`
as they do here. From it, in `LoadProofs`, `InitHonestHolds`, `FindsNearestHolds` and
the action property `OnlyNewFilesLostHolds`: an `init` that writes over a file of the
user's is one that saw none (`InitWrites`, with `SeenInv`).

**ConfigProofs** are lemmas about lists of every length: what `FlattenSeq` makes of a list
that grows by one, that to map and to flatten commute (`FlattenImage`), what the
items of a task expand to (`ExpandKeys`). Induction is by the least number outside a
set (`Induction`, from `WFMin`), for the library's induction takes an
operator.

**LoadProofs.** A property such as `ConditionsMean` speaks of the end, and what it needs of
the steps before is everything they did. `LInv` therefore says what the configuration
*is* at every stage, as a function of what the files say. `Raws` is the list of
the phases with those of other files in their places, and phase `m` is `DecodePhase`,
`ImportedPhase`, `SetPhaseOf` or `ReadyPhase` of `Raws[m]`, according to the
stage and to whether the loop has got to `m` (`AtPhases` ... `Ready`); `Undecided` and `Decided`
do the same for the settings of the build; `Checked` is what `Set` has refused, said
of the files; `ExpandInv` has each expanded phase among the outcomes of `TasksUpTo`. `StepSet`
and the other `Step...` lemmas take it from stage to stage, one for each action, and
`LInductive` joins them with `FileInductive`. What is left is about functions and not
about steps: `ReadyPhase` of an entry means what the entry says (`PhaseMeans`), is runnable (`PhaseRunnable`), keeps its
source (`Standing`), and each member of `TasksUpTo` is in order (`TasksInOrder`, by
induction over the tasks). From it `LTypeOKHolds`, `ImportsSplicedHolds`, `ConditionsMeanHolds`,
`ReadyToBuildHolds`, `SettingsFromFirstSourceHolds` and `ExpandedInOrderHolds`, for any
documents, any files and any number of items.

Every safety property of a passing run is proved. Only model-checked: all liveness
(`CancelEnds`, `EndsOrStuck`, `EveryTaskTried`, `CloseCloses`, `EventsDrained`, `CancelEndsBuild`,
`BuildEnds`), since TLAPS proves nothing under fairness.

## 5. Where the code disagrees with its documentation

Each property below states what the documentation, a message or a test says,
and TLC finds a behaviour of the code that violates it. The first five
are runs of `PROJECT.json`.

| cfg | property | what happens |
|---|---|---|
| `Phase_lost_update` | `PhaseEnds` | `RunTask`'s deferred `Set` (`phase.go:265-267`) overwrites the result a fast goroutine has written: the task is `running` for ever and the phase never ends |
| `Phase_crash` | `NoCrash` | `params.Phases` is assigned (`controller.go:350`) while a goroutine iterates over it (`controller.go:112`) |
| `Phase_inorder` | `DependentsRun` | a dependency ends between the scan and the look at the statuses after it: the phase is closed with a task in `queue` that could run |
| `Build_parallelism` | `BuildParallelism` | a drained event starts a task of a phase that is about to be over; it runs beside the next phase, which has tokens of its own |
| `PRFiles_complete` | `FilesComplete` | 150 files: page 2 of 50 is files 51 to 100 again |

Further configurations, to be run by hand (`tlc -config X.cfg M`), all violated:

| cfg, module | property | what happens |
|---|---|---|
| `Phase_http`, `MCPhase` | `PhaseEnds` | `SetType` accepts `http`, `PrepareTask` does not, and the task stays `running` (`phase.go:217-219`) |
| `Phase_no_items`, `MCPhase` | `PhaseEnds` | `items` is empty: a channel of capacity 0, and the loop blocks in its own first `Push` |
| `Phase_reversed`, `MCPhase` | `DependentsRun` | the dependency is listed after its dependent and is skipped or fails at once: no event is left that would visit the dependent |
| `Phase_unknown`, `MCPhase` | `UnknownDependencyFails` | `IsReady` sets `failed` on a copy (`phase.go:141-142`): the phase succeeds |
| `Phase_outfail`, `MCPhase` | `OutputFailureFailsPhase` | a task is `succeeded` in the list before its output is evaluated; the phase succeeds, and the task fails afterwards |
| `Phase_output`, `MCPhase` | `DependentSeesOutput` | a dependent starts on `succeeded` before the output it would use is there |
| `Phase_sequential`, `MCPhase` | `PhasesSequential` | a command runs after its phase is over, without any signal |
| `Phase_unnamed`, `MCPhase` | `CommandFailureFailsPhase` | `ToTemplate` finds no `Tasks` for a phase without a name, and the default `fail` script never fails it |
| `CommandOutput_combined`, `CommandOutput` | `CombinedComplete` | the two streams write to one buffer with no lock and a chunk is lost |
| `CommandOutput_stderr`, `CommandOutput` | `StderrIsTheCommands` | the line `+ sh -c ...` of `Executor.Run` is part of `Stderr` |
| `CommandOutput_stdout`, `CommandOutput` | `StdoutIsTheCommands` | the other stream cuts the shared buffer, `combinedOutput` takes less than the chunk, and the rest of standard output is not copied, though the terminal took all it was given |
| `CommandOutput_panic`, `CommandOutput` | `NoPanic` | the shared buffer is cut below the position a goroutine read, and `Buffer.Write` slices out of range |
| `Build_empty`, `MCBuild` | `EmptyPhaseIsNoError` | `runPhase` returns the zero `Phase` for a phase without tasks, and `outputResult` uses its nil list |
| `Build_no_items`, `MCBuild` | `SignalEndsBuild` | a phase whose items are empty blocks before its canceller exists, and a signal does not end the build |
| `Load_unknown`, `MCLoad` | `UnknownFieldsRefused` | a file that is imported is decoded without `SetStrict` |
| `Load_imports`, `MCLoad` | `NothingLeftToImport` | an import in a file that is imported is ignored |
| `Load_init`, `MCLoad` | `InitOverwritesNothing` | the user saves a file between `init`'s look and its write |

Seen while reading, with no model: a build that is cancelled may exit with 0,
for nothing looks at the context after the last phase; README:179 says a task can
refer only to tasks it depends on, which nothing enforces; the status "cancelled"
of `pkg/domain` is never set; the README writes `condtion` for `condition`, and at
566 `false` where `true` is meant.

## 6. What is not modelled

* Which pull request is asked for: `getPR` is its success or failure.
* Of the configuration, the repository and the log level, which are set as the owner is
  but for the environment's part in it, and scripts and templates that do not
  compile, on which `run` ends like on any other error.
* The race of `append(exc.Environ, ...)` (`execute.go:69`): commands of parallel
  tasks would write into the spare capacity of the slice `os.Environ` returns, which
  it has only if the environment holds a variable twice.
* The timeout of a command and what it kills: the library's.
* A second signal: `signal.Handle` receives one, and the others are swallowed.
* Data: what commands print, what scripts compute. `task.Result = result`
  (`phase.go:230`) drops the `Input` of a task; results carry no data in `Phase`.
* Tengo, text/template, os/exec, the timeout and the GitHub libraries: external,
  present as their outcomes.
* Formatting, logging, locale and version constants.

## 7. Plan

Done, in this order: `Phase` with `TaskGraph` (the heart of the system),
`EventQueue` with `Channel` (what `Phase` assumes of the queue), `Build` with
`Pipeline`, `PRFiles`, `CommandOutput`; then `Config`, `ConfigFile` and `Load` (what `Build`
assumes of its configuration), the terminal in `CommandOutput`, the empty phase and
the liveness of `Build`; the proofs of every safety property.

Next:

1. Data in `Phase`: `Input` and `Output` of a result, with the copies that lose them.
2. `Environ`: commands of parallel tasks that append to one slice.
3. `Build` with two tasks for each phase in the passing run, by abstracting `Phase` to
   what `Build` sees of it; `getPR`.
4. Proofs about `Input` and `Output` once `Phase` has them, and the link the arrow from
   `Load` to `Build` stands for: that `ReadyToBuild` gives `PhaseAssumption` its
   configurations.
