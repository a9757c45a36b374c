------------------------------- MODULE Phase -------------------------------
(***************************************************************************)
(* The scheduler of one phase: the event loop of Controller.runPhase, the  *)
(* scan of Phase.Run / Phase.RunTask, one goroutine Phase.runTask per      *)
(* started task, the goroutine that closes the event queue when the        *)
(* context is cancelled, and what they share: the list of task results,    *)
(* the channel EventQueue.Queue, the semaphore TaskQueue and the map       *)
(* params.Phases.                                                          *)
(*                                                                         *)
(* A step is the code between two accesses to that shared state.  Reads    *)
(* that no other goroutine can tell apart from one read (the snapshot of   *)
(* the list at the start of Phase.Run: only this loop moves a task out of  *)
(* "queue") are one step.                                                  *)
(***************************************************************************)
EXTENDS Integers, FiniteSets

CONSTANTS
  N,            \* number of tasks of the phase once items are expanded
  Parallelism,  \* Config.Parallelism; 0 or less is no limit
  Names,        \* task names, those no task has included
  Configs       \* the configurations explored

Tasks == 1 .. N

(***************************************************************************)
(* What the configuration says of the phase.  Several tasks may bear one   *)
(* name (items); a dependency is a list of names or a script, never both   *)
(* (Dependency.UnmarshalYAML); SetType also accepts the type "http", which *)
(* PrepareTask does not know; the phase's fail condition is the default    *)
(* script of config.setDefault or one of the user's; and a phase may have  *)
(* no name, for which Params.ToTemplate gives the scripts no Tasks.        *)
(***************************************************************************)
ConfigType ==
  [name   : [Tasks -> Names],
   dep    : [Tasks -> SUBSET Names],
   script : [Tasks -> BOOLEAN],
   kind   : [Tasks -> {"exec", "http"}],
   fail   : {"default", "custom"},
   named  : BOOLEAN]

ASSUME PhaseAssumption ==
  /\ N \in Nat
  /\ Parallelism \in Int
  /\ Configs \subseteq ConfigType

VARIABLES
  cfg,      \* the configuration, fixed
  status,   \* TaskList: Result.Status of each task
  queued,   \* len(EventQueue.Queue)
  closed,   \* EventQueue.closed
  tokens,   \* len(TaskQueue.queue)
  main,     \* where the event loop is
  idx,      \* the task the scan is at
  gor,      \* where each task's goroutine is
  res,      \* the goroutine's own copy of the result
  ctx,      \* the context of the build
  verdict   \* Phase.Status after the loop

vars == <<cfg, status, queued, closed, tokens, main, idx, gor, res, ctx, verdict>>

StatusType  == {"queue", "running", "skipped", "failed", "succeeded"}
MainType    == {"push", "recv", "scan", "defer", "write", "leave", "fail",
                "done", "crashed"}
GorType     == {"none", "acquire", "exec", "publish", "output", "final",
                "push", "done"}
ResType     == {"none", "succeeded", "cmdfail", "outfail"}
VerdictType == {"none", "succeeded", "failed", "error"}

TypeOK ==
  /\ cfg \in ConfigType
  /\ status \in [Tasks -> StatusType]
  /\ queued \in 0 .. N
  /\ closed \in BOOLEAN
  /\ tokens \in Nat
  /\ main \in MainType
  /\ idx \in 1 .. N + 1
  /\ gor \in [Tasks -> GorType]
  /\ res \in [Tasks -> ResType]
  /\ ctx \in {"live", "cancelled"}
  /\ verdict \in VerdictType

Init ==
  /\ cfg \in Configs
  /\ status = [t \in Tasks |-> "queue"]
  /\ queued = 0
  /\ closed = FALSE
  /\ tokens = 0
  /\ main = "push"
  /\ idx = 1
  /\ gor = [t \in Tasks |-> "none"]
  /\ res = [t \in Tasks |-> "none"]
  /\ ctx \in {"live", "cancelled"}  \* an earlier phase may have been cancelled
  /\ verdict = "none"

-----------------------------------------------------------------------------
(* EventQueue and TaskQueue *)

QueueCapBug == N - 1

\* newPhase: make(chan struct{}, len(tasks))
QueueCap == N

\* Push sends unless the queue is closed, and blocks while the channel is full.
Push ==
  \/ /\ closed
     /\ UNCHANGED queued
  \/ /\ ~closed
     /\ queued < QueueCap
     /\ queued' = queued + 1

\* TaskQueue.push and pop: no channel at all when there is no limit.
Limited == Parallelism > 0

NoTokenBug == UNCHANGED tokens

AcquireTokenBug == tokens' = IF Limited THEN tokens + 1 ELSE tokens

AcquireToken ==
  /\ Limited => tokens < Parallelism
  /\ tokens' = IF Limited THEN tokens + 1 ELSE tokens

ReleaseToken == tokens' = IF Limited THEN tokens - 1 ELSE tokens

-----------------------------------------------------------------------------
(* What RunTask evaluates before it starts a task *)

IsFinishedBug(s) == s # "queue"

IsFinished(s) == s \notin {"running", "queue"}

\* Phase.Get: every task that has the name.
Get(name) == {u \in Tasks : cfg.name[u] = name}

DependsOn(t) == UNION {Get(n) : n \in cfg.dep[t]}

\* A name no task has is no reason to wait.
NamesFinishedBug(t) == \A u \in DependsOn(t) : IsFinished(status[u])

\* A name no task has makes IsReady return an error.  The error is logged and
\* the status it assigns is on a copy of the task: the caller sees "not ready".
NamesFinished(t) ==
  \A n \in cfg.dep[t] :
    /\ Get(n) # {}
    /\ \A u \in Get(n) : IsFinished(status[u])

\* IsReady: the answers it may give.  A script is evaluated on the whole state
\* of the build, and its errors count as "not ready".
Readiness(t) ==
  IF ~NamesFinished(t) THEN {FALSE}
  ELSE IF cfg.script[t] THEN BOOLEAN
  ELSE {TRUE}

-----------------------------------------------------------------------------
(* The event loop *)

\* phase.EventQueue.Push(), then the cancelling goroutine is started.
PushFirst ==
  /\ main = "push"
  /\ Push
  /\ main' = "recv"
  /\ UNCHANGED <<cfg, status, closed, tokens, idx, gor, res, ctx, verdict>>

\* range over the channel: an event starts Phase.Run ...
Receive ==
  /\ main = "recv"
  /\ queued > 0
  /\ queued' = queued - 1
  /\ main' = "scan"
  /\ idx' = 1
  /\ UNCHANGED <<cfg, status, closed, tokens, gor, res, ctx, verdict>>

EndOfRangeBug ==
  /\ main = "recv"
  /\ closed
  /\ main' = "leave"
  /\ UNCHANGED <<cfg, status, queued, closed, tokens, idx, gor, res, ctx, verdict>>

\* ... and the loop ends when the channel is closed and empty.
EndOfRange ==
  /\ main = "recv"
  /\ queued = 0
  /\ closed
  /\ main' = "leave"
  /\ UNCHANGED <<cfg, status, queued, closed, tokens, idx, gor, res, ctx, verdict>>

\* The scan is at task t, which is still to be started.
AtQueued(t) ==
  /\ main = "scan"
  /\ idx = t
  /\ status[t] = "queue"

\* The scan goes on with the next task; RunTask's deferred Set leaves s.
Leave(t, s) ==
  /\ status' = [status EXCEPT ![t] = s]
  /\ idx' = t + 1
  /\ UNCHANGED main

\* RunTask returns at once for a task that is not in "queue".
RunTaskPass(t) ==
  /\ main = "scan"
  /\ idx = t
  /\ status[t] # "queue"
  /\ idx' = t + 1
  /\ UNCHANGED <<cfg, status, queued, closed, tokens, main, gor, res, ctx, verdict>>

RunTaskNotReady(t) ==
  /\ AtQueued(t)
  /\ FALSE \in Readiness(t)
  /\ Leave(t, "queue")
  /\ UNCHANGED <<cfg, queued, closed, tokens, gor, res, ctx, verdict>>

\* "when" is false.
RunTaskSkip(t) ==
  /\ AtQueued(t)
  /\ TRUE \in Readiness(t)
  /\ Leave(t, "skipped")
  /\ UNCHANGED <<cfg, queued, closed, tokens, gor, res, ctx, verdict>>

\* "when" or the input fails, or a template of the task does not render.
RunTaskFail(t) ==
  /\ AtQueued(t)
  /\ TRUE \in Readiness(t)
  /\ Leave(t, "failed")
  /\ UNCHANGED <<cfg, queued, closed, tokens, gor, res, ctx, verdict>>

\* PrepareTask refuses the type, after the status was set to "running".
RunTaskUnknownType(t) ==
  /\ AtQueued(t)
  /\ TRUE \in Readiness(t)
  /\ cfg.kind[t] = "http"
  /\ Leave(t, "running")
  /\ UNCHANGED <<cfg, queued, closed, tokens, gor, res, ctx, verdict>>

\* The task is set to "running" and its goroutine is started ...
RunTaskStart(t) ==
  /\ AtQueued(t)
  /\ TRUE \in Readiness(t)
  /\ cfg.kind[t] = "exec"
  /\ status' = [status EXCEPT ![t] = "running"]
  /\ gor' = [gor EXCEPT ![t] = "acquire"]
  /\ main' = "defer"
  /\ UNCHANGED <<cfg, queued, closed, tokens, idx, res, ctx, verdict>>

DeferredSetBug(t) ==
  /\ main = "defer"
  /\ idx = t
  /\ status' = [status EXCEPT ![t] = "queue"]
  /\ idx' = t + 1
  /\ main' = "scan"
  /\ UNCHANGED <<cfg, queued, closed, tokens, gor, res, ctx, verdict>>

\* ... and only then does RunTask's deferred Set write its copy of the task.
DeferredSet(t) ==
  /\ main = "defer"
  /\ idx = t
  /\ status' = [status EXCEPT ![t] = "running"]
  /\ idx' = t + 1
  /\ main' = "scan"
  /\ UNCHANGED <<cfg, queued, closed, tokens, gor, res, ctx, verdict>>

\* The end of Phase.Run, once every task has been visited.
AllFinished ==
  /\ main = "scan"
  /\ idx = N + 1
  /\ \A t \in Tasks : IsFinished(status[t])
  /\ closed' = TRUE
  /\ main' = "write"
  /\ UNCHANGED <<cfg, status, queued, tokens, idx, gor, res, ctx, verdict>>

NoRunningBug ==
  /\ main = "scan"
  /\ idx = N + 1
  /\ \E t \in Tasks : status[t] = "queue"
  /\ closed' = TRUE
  /\ main' = "write"
  /\ UNCHANGED <<cfg, status, queued, tokens, idx, gor, res, ctx, verdict>>

\* Tasks are left and none runs: an error, on which runPhase closes the queue.
NoRunning ==
  /\ main = "scan"
  /\ idx = N + 1
  /\ \E t \in Tasks : status[t] = "queue"
  /\ \A t \in Tasks : status[t] # "running"
  /\ closed' = TRUE
  /\ main' = "write"
  /\ UNCHANGED <<cfg, status, queued, tokens, idx, gor, res, ctx, verdict>>

StillRunning ==
  /\ main = "scan"
  /\ idx = N + 1
  /\ \E t \in Tasks : status[t] = "running"
  /\ main' = "write"
  /\ UNCHANGED <<cfg, status, queued, closed, tokens, idx, gor, res, ctx, verdict>>

\* params.Phases[...] = phase, after each event ...
WritePhase ==
  /\ main = "write"
  /\ main' = "recv"
  /\ UNCHANGED <<cfg, status, queued, closed, tokens, idx, gor, res, ctx, verdict>>

\* ... and once more after the loop.
WriteLast ==
  /\ main = "leave"
  /\ main' = "fail"
  /\ UNCHANGED <<cfg, status, queued, closed, tokens, idx, gor, res, ctx, verdict>>

\* The map is written with no lock while a goroutine iterates over it in
\* Params.ToExpr: the Go runtime may stop the process.
MapRace ==
  /\ main \in {"write", "leave"}
  /\ \E t \in Tasks : gor[t] = "output"

Crash ==
  /\ MapRace
  /\ main' = "crashed"
  /\ UNCHANGED <<cfg, status, queued, closed, tokens, idx, gor, res, ctx, verdict>>

\* phaseCfg.Condition.Fail.Match: the default script looks for a failed task
\* in the Tasks it is given, none of them in a phase without a name.
FailResults ==
  {"error"} \cup
    IF cfg.fail = "custom" THEN {"succeeded", "failed"}
    ELSE IF cfg.named /\ \E t \in Tasks : status[t] = "failed" THEN {"failed"}
    ELSE {"succeeded"}

EvalFail ==
  /\ main = "fail"
  /\ verdict' \in FailResults
  /\ main' = "done"
  /\ UNCHANGED <<cfg, status, queued, closed, tokens, idx, gor, res, ctx>>

-----------------------------------------------------------------------------
(* The goroutine of a task *)

Acquire(t) ==
  /\ gor[t] = "acquire"
  /\ AcquireToken
  /\ gor' = [gor EXCEPT ![t] = "exec"]
  /\ UNCHANGED <<cfg, status, queued, closed, main, idx, res, ctx, verdict>>

\* task.Run returns and the token is given back.
CommandSucceeds(t) ==
  /\ gor[t] = "exec"
  /\ ReleaseToken
  /\ gor' = [gor EXCEPT ![t] = "publish"]
  /\ res' = [res EXCEPT ![t] = "succeeded"]
  /\ UNCHANGED <<cfg, status, queued, closed, main, idx, ctx, verdict>>

CommandFails(t) ==
  /\ gor[t] = "exec"
  /\ ReleaseToken
  /\ gor' = [gor EXCEPT ![t] = "final"]
  /\ res' = [res EXCEPT ![t] = "cmdfail"]
  /\ UNCHANGED <<cfg, status, queued, closed, main, idx, ctx, verdict>>

\* The first Set of a success, before the output is evaluated.
Publish(t) ==
  /\ gor[t] = "publish"
  /\ status' = [status EXCEPT ![t] = "succeeded"]
  /\ gor' = [gor EXCEPT ![t] = "output"]
  /\ UNCHANGED <<cfg, queued, closed, tokens, main, idx, res, ctx, verdict>>

\* params.ToExpr() and the output script.
Output(t) ==
  /\ gor[t] = "output"
  /\ \E r \in {"succeeded", "outfail"} : res' = [res EXCEPT ![t] = r]
  /\ gor' = [gor EXCEPT ![t] = "final"]
  /\ UNCHANGED <<cfg, status, queued, closed, tokens, main, idx, ctx, verdict>>

FinalBug(t) ==
  /\ gor[t] = "final"
  /\ status' = [status EXCEPT ![t] = "succeeded"]
  /\ gor' = [gor EXCEPT ![t] = "push"]
  /\ UNCHANGED <<cfg, queued, closed, tokens, main, idx, res, ctx, verdict>>

\* The deferred Set, then the deferred Push.
Final(t) ==
  /\ gor[t] = "final"
  /\ status' = [status EXCEPT ![t] = IF res[t] = "succeeded" THEN "succeeded"
                                     ELSE "failed"]
  /\ gor' = [gor EXCEPT ![t] = "push"]
  /\ UNCHANGED <<cfg, queued, closed, tokens, main, idx, res, ctx, verdict>>

PushEventBug(t) ==
  /\ gor[t] = "push"
  /\ res[t] = "succeeded" => Push
  /\ res[t] # "succeeded" => UNCHANGED queued
  /\ gor' = [gor EXCEPT ![t] = "done"]
  /\ UNCHANGED <<cfg, status, closed, tokens, main, idx, res, ctx, verdict>>

PushEvent(t) ==
  /\ gor[t] = "push"
  /\ Push
  /\ gor' = [gor EXCEPT ![t] = "done"]
  /\ UNCHANGED <<cfg, status, closed, tokens, main, idx, res, ctx, verdict>>

-----------------------------------------------------------------------------
(* Cancellation *)

\* signal.Handle cancels the context.
Signal ==
  /\ ctx = "live"
  /\ ctx' = "cancelled"
  /\ UNCHANGED <<cfg, status, queued, closed, tokens, main, idx, gor, res, verdict>>

CancelCloseBug ==
  /\ ctx = "cancelled"
  /\ main # "push"
  /\ ~closed
  /\ \A t \in Tasks : status[t] # "running"
  /\ closed' = TRUE
  /\ UNCHANGED <<cfg, status, queued, tokens, main, idx, gor, res, ctx, verdict>>

\* The goroutine runPhase starts after its first Push.
CancelClose ==
  /\ ctx = "cancelled"
  /\ main # "push"
  /\ ~closed
  /\ closed' = TRUE
  /\ UNCHANGED <<cfg, status, queued, tokens, main, idx, gor, res, ctx, verdict>>

\* Nothing is left to do.
Terminated ==
  /\ \/ main = "crashed"
     \/ /\ main = "done"
        /\ \A t \in Tasks : gor[t] \in {"none", "done"}
  /\ UNCHANGED vars

-----------------------------------------------------------------------------
RunTask(t) ==
  \/ RunTaskPass(t)
  \/ RunTaskNotReady(t)
  \/ RunTaskSkip(t)
  \/ RunTaskFail(t)
  \/ RunTaskUnknownType(t)
  \/ RunTaskStart(t)
  \/ DeferredSet(t)

Main ==
  \/ PushFirst
  \/ Receive
  \/ EndOfRange
  \/ \E t \in Tasks : RunTask(t)
  \/ AllFinished
  \/ NoRunning
  \/ StillRunning
  \/ WritePhase
  \/ WriteLast
  \/ EvalFail

Goroutine(t) ==
  /\ main # "crashed"
  /\ \/ Acquire(t)
     \/ CommandSucceeds(t)
     \/ CommandFails(t)
     \/ Publish(t)
     \/ Output(t)
     \/ Final(t)
     \/ PushEvent(t)

Environment ==
  /\ main # "crashed"
  /\ Signal

Canceller ==
  /\ main # "crashed"
  /\ CancelClose

Next ==
  \/ Main
  \/ \E t \in Tasks : Goroutine(t)
  \/ Environment
  \/ Canceller
  \/ Crash
  \/ Terminated

Spec == Init /\ [][Next]_vars

(***************************************************************************)
(* The Go scheduler runs every goroutine that can run.  A command ends:    *)
(* runCommand gives each one a timeout, an hour if none is configured.     *)
(* Nothing makes a signal arrive or the race be noticed.                   *)
(***************************************************************************)
Fairness ==
  /\ WF_vars(Main)
  /\ WF_vars(Canceller)
  /\ \A t \in Tasks : WF_vars(Goroutine(t))

FairSpec == Spec /\ Fairness

-----------------------------------------------------------------------------
(* Invariants *)

\* The goroutine of the task waits for its turn or runs its command.
Active(t) == gor[t] \in {"acquire", "exec"}

Live(t) == gor[t] \notin {"none", "done"}

\* The list says "running" and no goroutine will ever say otherwise.
Stuck(t) ==
  /\ status[t] = "running"
  /\ ~Live(t)
  /\ ~(main = "defer" /\ idx = t)

\* No more than Parallelism commands of the phase run at a time, whatever
\* the order in which goroutines take and give back tokens (TaskQueue).
ParallelismBound ==
  Limited => Cardinality({t \in Tasks : gor[t] = "exec"}) <= Parallelism

\* A goroutine that pushes its event finds room in the channel (Push holds
\* the mutex Close needs, so a full channel would block the loop for good).
NoBlockedPush ==
  \A t \in Tasks : gor[t] = "push" /\ ~closed => queued < QueueCap

\* Once a task is started, none of the tasks it depends on runs its command
\* or will ever do: IsReady's reads are not stale when they are used.  A task
\* that depends on a name no task has is never started, though the status IsReady
\* gives it is lost.
DependencyOrder ==
  \A t \in Tasks : gor[t] # "none" =>
    /\ \A n \in cfg.dep[t] : Get(n) # {}
    /\ \A u \in DependsOn(t) :
         \/ gor[u] \in {"output", "final", "push", "done"}
         \/ gor[u] = "none" /\ IsFinished(status[u])

\* The loop never sleeps on an open, empty channel while it could go on: some
\* goroutine still has its event to push, or a task is stuck in "running".
NoLostWakeup ==
  main = "recv" /\ queued = 0 /\ ~closed =>
    \E t \in Tasks : Live(t) \/ Stuck(t)

\* A phase with a name and without dependencies that is not cancelled is given
\* "succeeded" by the default condition only if all its commands have ended and
\* none failed.
Independent == \A t \in Tasks : cfg.dep[t] = {} /\ ~cfg.script[t]

VerdictSound ==
  /\ verdict = "succeeded" /\ ctx = "live"
  /\ cfg.fail = "default" /\ cfg.named /\ Independent
  => \A t \in Tasks : ~Active(t) /\ res[t] # "cmdfail"

-----------------------------------------------------------------------------
(* The inductive invariant behind them *)

Executing == {t \in Tasks : gor[t] = "exec"}
Pushed    == {t \in Tasks : gor[t] = "done"}

\* Each running command holds one token.
TokenCount ==
  Limited => tokens = Cardinality(Executing) /\ tokens <= Parallelism

\* The first event is received before any goroutine exists; after that every
\* event in the channel is one a finished goroutine has pushed.
QueueCount ==
  \/ queued <= Cardinality(Pushed)
  \/ main = "recv" /\ queued = 1 /\ \A t \in Tasks : gor[t] = "none"

\* How a task's status and its goroutine go together.
StatusInv ==
  /\ main = "push" => queued = 0 /\ \A t \in Tasks : gor[t] = "none"
  /\ main = "defer" => idx \in Tasks /\ gor[idx] # "none"
  /\ \A t \in Tasks :
       /\ status[t] = "queue" => gor[t] = "none"
       /\ gor[t] \in {"acquire", "exec", "publish"} => status[t] = "running"

\* What is written of a command that failed.
FailureInv ==
  \A t \in Tasks : res[t] = "cmdfail" =>
    \/ gor[t] = "final" /\ status[t] = "running"
    \/ gor[t] \in {"push", "done"} /\ status[t] \in {"failed", "running"}

\* NoLostWakeup, from the end of the scan on.
WakeInv ==
  main \in {"write", "recv"} /\ queued = 0 /\ ~closed =>
    \E t \in Tasks : Live(t) \/ Stuck(t)

\* Without dependencies the scan leaves no task behind it in "queue", so that
\* the loop closes the channel only once every task is finished for good.
ScanInv ==
  Independent /\ main \in {"scan", "defer"} =>
    \A t \in Tasks : t < idx => status[t] # "queue"

CloseInv ==
  /\ main \in {"leave", "fail", "done"} => closed
  /\ Independent /\ closed /\ ctx = "live" =>
       main # "defer" /\ \A t \in Tasks : IsFinished(status[t])
  /\ verdict # "none" => main = "done"

IInv ==
  /\ TypeOK
  /\ TokenCount
  /\ QueueCount
  /\ StatusInv
  /\ FailureInv
  /\ DependencyOrder
  /\ WakeInv
  /\ ScanInv
  /\ CloseInv
  /\ VerdictSound

-----------------------------------------------------------------------------
(* Action properties *)

\* No interleaving of the copies of a task that the scan and the goroutine
\* write back makes the scheduler start it again.
StartedOnce ==
  [][\A t \in Tasks : gor[t] # "none" /\ gor'[t] = "acquire" => gor[t] = "acquire"]_vars

\* The loop itself closes the queue only when no command runs or waits for a
\* token; only a cancellation closes it earlier.
ClosedWhenIdle ==
  [][~closed /\ closed' /\ ctx = "live" => \A t \in Tasks : ~Active(t)]_vars

-----------------------------------------------------------------------------
(* The promise of TaskGraph *)

\* A task is settled once its command has ended, or once the scan has skipped
\* it or found it impossible to run.
JobState(t) ==
  IF gor[t] # "none" THEN IF Active(t) THEN "active" ELSE "settled"
  ELSE IF status[t] = "queue" THEN "waiting"
  ELSE IF status[t] = "running" THEN "active"
  ELSE "settled"

JobStates == [t \in Tasks |-> JobState(t)]
AfterOf   == [t \in Tasks |-> DependsOn(t)]
LoopOver  == main \in {"leave", "fail", "done", "crashed"}

Graph == INSTANCE TaskGraph
           WITH Job <- Tasks, after <- AfterOf, job <- JobStates, over <- LoopOver

\* The scheduler implements TaskGraph: with all its queues, copies and lost
\* updates it still takes a task up at most once, after the tasks it depends
\* on, and not after its loop has ended.
ImplementsTaskGraph == Graph!Spec

-----------------------------------------------------------------------------
(* Liveness *)

Stopped == main \in {"done", "crashed"}

\* A cancelled phase ends, stuck tasks or not: every event already in the
\* channel is handled and the closed channel ends the loop.
CancelEnds == (ctx = "cancelled") ~> Stopped

\* A phase that never ends is one with a task stuck in "running".
EndsOrStuck == <>(Stopped \/ \E t \in Tasks : Stuck(t))

\* Without dependencies every task leaves "queue", even when a signal comes
\* first: the first event is in the channel before anything can close it.
EveryTaskTried ==
  Independent => <>(main = "crashed" \/ \A t \in Tasks : status[t] # "queue")

-----------------------------------------------------------------------------
(* What documentation, messages and tests say and the code does not do *)

\* A phase ends.
PhaseEnds == <>Stopped

\* README: "This task would be run after the dependent tasks are finished."
\* When a phase that was not cancelled is over, no task is left in "queue"
\* with all its dependencies finished.
DependentsRun ==
  main = "done" /\ ctx = "live" =>
    \A t \in Tasks : status[t] = "queue" => ~NamesFinished(t)

\* IsReady: `task.Result.Status = constant.Failed` for a dependency that no
\* task has the name of.  Such a phase does not succeed.
UnknownDependencyFails ==
  verdict = "succeeded" =>
    \A t \in Tasks : status[t] = "queue" => \A n \in cfg.dep[t] : Get(n) # {}

\* README: "output ... is useful to format task's result for subsequent
\* tasks."  A task starts once the outputs of its dependencies are there.
DependentSeesOutput ==
  \A t \in Tasks : gor[t] # "none" =>
    \A u \in DependsOn(t) : gor[u] \in {"none", "push", "done"}

\* config.setDefault: a phase fails if a task is "failed".  A task whose
\* output fails is "failed" too.
OutputFailureFailsPhase ==
  verdict = "succeeded" /\ ctx = "live" => \A t \in Tasks : res[t] # "outfail"

\* README: "By default `fail` is false if any tasks failed" (it means true): a
\* phase does not succeed after one of its commands has failed.
CommandFailureFailsPhase ==
  verdict = "succeeded" /\ ctx = "live" /\ cfg.fail = "default" =>
    \A t \in Tasks : res[t] # "cmdfail"

\* README: "Phases are run not in parallel but sequentially."  No command of
\* a phase that was not cancelled runs once the phase is over.
PhasesSequential == main = "done" /\ ctx = "live" => \A t \in Tasks : ~Active(t)

\* examples/main_test.go "run tasks in parallel" expects exit code 0.
NoCrash == main # "crashed"
=============================================================================
