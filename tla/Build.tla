------------------------------- MODULE Build -------------------------------
(***************************************************************************)
(* A whole build: Controller.Run, with Phase for the phase it is at.       *)
(*                                                                         *)
(* Each phase has an event queue, a task queue and a task list of its own. *)
(* What outlives it are its task goroutines: the build goes on while they  *)
(* do, each still working on the list params.Phases holds of its phase.    *)
(* The variables of Phase are those of the current phase; once it is over, *)
(* what is left of it moves to "past".                                     *)
(***************************************************************************)
EXTENDS Phase

CONSTANT NPhases  \* number of phases

Phases == 1 .. NPhases

ASSUME BuildAssumption == NPhases \in Nat

VARIABLES
  at,         \* where Controller.Run is
  cur,        \* the phase it is at
  ph,         \* the Phase runPhase returns: its Status, and what follows it
  result,     \* params.Phases: the Status of each phase, "none" if it has none
  past,       \* the tasks of the phases that are over
  condition,  \* the build's fail condition, fixed
  outcome     \* the exit code: "ok" is 0, "error" is 1

run == <<at, cur, ph, result, past, condition, outcome>>

bvars == <<vars, run>>

AtType == {"pr", "files", "params", "skip", "next", "register", "check",
           "running", "blocked", "record", "fail", "ended", "panicked"}

Statuses == {"none", "skipped", "failed", "succeeded"}

PastType == [cfg : ConfigType, gor : [Tasks -> GorType], res : [Tasks -> ResType]]

BTypeOK ==
  /\ TypeOK
  /\ at \in AtType
  /\ cur \in 1 .. NPhases + 1
  /\ ph \in [status : Statuses, then : {"go on", "exit", "error", "panic"}]
  /\ result \in [Phases -> Statuses]
  /\ past \in [Phases -> PastType]
  /\ condition \in {"default", "custom"}
  /\ outcome \in {"none", "ok", "error"}

NoTask == [t \in Tasks |-> "none"]

BInit ==
  /\ Init
  /\ at = "pr"
  /\ cur = 1
  /\ ph = [status |-> "none", then |-> "go on"]
  /\ result = [p \in Phases |-> "none"]
  /\ past = [p \in Phases |-> [cfg |-> cfg, gor |-> NoTask, res |-> NoTask]]
  /\ condition \in {"default", "custom"}
  /\ outcome = "none"

\* The process is gone, its goroutines with it.
Gone == at \in {"ended", "panicked"} \/ main = "crashed"

-----------------------------------------------------------------------------
(* Before the first phase *)

Exit(o) == at' = "ended" /\ outcome' = o

\* getPR, ReadExternalFiles, getParams and the build's skip condition, each of
\* which may fail.
Prepare(here, there) ==
  /\ at = here
  /\ \/ at' = there /\ UNCHANGED outcome
     \/ Exit("error")
  /\ UNCHANGED <<vars, cur, ph, result, past, condition>>

SkipBuild ==
  /\ at = "skip"
  /\ Exit("ok")
  /\ UNCHANGED <<vars, cur, ph, result, past, condition>>

-----------------------------------------------------------------------------
(* runPhase, up to its event loop *)

\* What runPhase returns.
Return(s, then) ==
  /\ ph' = [status |-> s, then |-> then]
  /\ at' = "record"

\* The range over ctrl.Config.Phases takes one phase too many.
GetPhaseBug ==
  /\ at = "next"
  /\ cur <= NPhases + 1
  /\ Return("failed", "go on")
  /\ UNCHANGED <<vars, cur, result, past, condition, outcome>>

\* For a phase without tasks runPhase returns the zero Phase; the items of a task
\* may not expand.
GetPhase ==
  /\ at = "next"
  /\ cur \in Phases
  /\ \/ Return("none", "panic")
     \/ Return("failed", "go on")
     \/ at' = "register" /\ UNCHANGED ph
  /\ UNCHANGED <<vars, cur, result, past, condition, outcome>>

\* params.Phases[params.PhaseName] = phase
Register ==
  /\ at = "register"
  /\ at' = "check"
  /\ UNCHANGED <<vars, cur, ph, result, past, condition, outcome>>

\* checkSkipPhase: an error fails the phase.
CheckSkipPhase ==
  /\ at = "check"
  /\ \E s \in {"failed", "skipped"} : Return(s, "go on")
  /\ UNCHANGED <<vars, cur, result, past, condition, outcome>>

\* The phase is run, with the queues and the list newPhase made.
EnterPhase ==
  /\ at = "check"
  /\ at' = "running"
  /\ UNCHANGED <<vars, cur, ph, result, past, condition, outcome>>

\* The items of its tasks have expanded to nothing: the loop sends its first
\* event to a channel without room, before anything could close it, and not even
\* a signal ends the process any more (Handle takes one and ignores the next).
BlockInPush ==
  /\ at = "check"
  /\ at' = "blocked"
  /\ UNCHANGED <<vars, cur, ph, result, past, condition, outcome>>

-----------------------------------------------------------------------------
(* The event loop and the goroutines *)

PhaseStep ==
  /\ at = "running"
  /\ Main
  /\ UNCHANGED run

PhaseGoroutine(t) ==
  /\ at = "running"
  /\ Goroutine(t)
  /\ UNCHANGED run

PhaseCanceller ==
  /\ at = "running"
  /\ Canceller
  /\ UNCHANGED run

\* A signal may come at any time.
BSignal ==
  /\ ~Gone
  /\ Signal
  /\ UNCHANGED run

\* A goroutine of a phase that is over.  Its queue is closed: it never waits
\* to push.  Its tokens are those of its own phase.
LateToken(p) ==
  Limited => Cardinality({t \in Tasks : past[p].gor[t] = "exec"}) < Parallelism

LateMove(p, t, from, to) ==
  /\ past[p].gor[t] \in from
  /\ past' = [past EXCEPT ![p].gor[t] = to]

LateAcquire(p, t) ==
  /\ LateToken(p)
  /\ LateMove(p, t, {"acquire"}, "exec")

LateCommand(p, t) ==
  /\ past[p].gor[t] = "exec"
  /\ \E l \in {"publish", "final"} :
       past' = [past EXCEPT ![p].gor[t] = l,
                            ![p].res[t] = IF l = "publish" THEN "succeeded"
                                          ELSE "cmdfail"]

Late(p, t) ==
  /\ ~Gone
  /\ \/ LateAcquire(p, t)
     \/ LateCommand(p, t)
     \/ LateMove(p, t, {"publish"}, "output")
     \/ LateMove(p, t, {"output", "final", "push"}, "done")
  /\ UNCHANGED <<vars, at, cur, ph, result, condition, outcome>>

\* Every write of params.Phases races with a goroutine, of any phase, that
\* iterates over it.
Writing ==
  \/ at \in {"register", "record"}
  \/ at = "running" /\ main \in {"push", "write", "leave"}

Iterating ==
  \/ at = "running" /\ \E t \in Tasks : gor[t] = "output"
  \/ \E p \in Phases, t \in Tasks : past[p].gor[t] = "output"

BCrash ==
  /\ Writing
  /\ Iterating
  /\ ~Gone
  /\ main' = "crashed"
  /\ UNCHANGED <<cfg, status, queued, closed, tokens, idx, gor, res, ctx, verdict, run>>

-----------------------------------------------------------------------------
(* The end of runPhase, and of the build *)

\* phaseCfg.Condition.Exit.Match
ExitCondition == {"go on", "exit", "error"}

\* What getPhase will make of the next phase to run.
NewPhase ==
  /\ IF cur < NPhases THEN cfg' \in Configs ELSE UNCHANGED cfg
  /\ status' = [t \in Tasks |-> "queue"]
  /\ gor' = NoTask
  /\ res' = NoTask
  /\ queued' = 0
  /\ closed' = FALSE
  /\ tokens' = 0
  /\ main' = "push"
  /\ idx' = 1
  /\ verdict' = "none"
  /\ UNCHANGED ctx

\* A fail condition that has an error fails the phase, and its exit condition
\* is not evaluated.
PhaseOver ==
  /\ at = "running"
  /\ main = "done"
  /\ IF verdict = "error" THEN Return("failed", "go on")
     ELSE \E then \in ExitCondition : Return(verdict, then)
  /\ past' = [past EXCEPT ![cur] = [cfg |-> cfg, gor |-> gor, res |-> res]]
  /\ NewPhase
  /\ UNCHANGED <<cur, result, condition, outcome>>

\* params.Phases[phaseCfg.Name] = phase, and what comes after it.
Record ==
  /\ at = "record"
  /\ ph.then # "panic"
  /\ result' = [result EXCEPT ![cur] = ph.status]
  /\ \/ /\ ph.then = "error"
        /\ Exit("error")
        /\ UNCHANGED cur
     \/ /\ ph.then = "exit"
        /\ at' = "fail"
        /\ UNCHANGED <<cur, outcome>>
     \/ /\ ph.then = "go on"
        /\ at' = "next"
        /\ cur' = cur + 1
        /\ UNCHANGED outcome
  /\ UNCHANGED <<vars, ph, past, condition>>

\* outputResult asks the zero Phase for its Tasks, which are nil.
OutputResultPanics ==
  /\ at = "record"
  /\ ph.then = "panic"
  /\ at' = "panicked"
  /\ UNCHANGED <<vars, cur, ph, result, past, condition, outcome>>

AllPhasesRun ==
  /\ at = "next"
  /\ cur \notin Phases
  /\ at' = "fail"
  /\ UNCHANGED <<vars, cur, ph, result, past, condition, outcome>>

OutcomesBug ==
  IF condition = "custom" THEN {"ok", "error"}
  ELSE IF cur \in Phases /\ result[cur] = "failed" THEN {"error"}
  ELSE {"ok"}

\* ctrl.Config.Condition.Fail.Match: the default script looks for a phase that
\* failed.  Any failure, ErrBuildFail included, is exit code 1.
Outcomes ==
  IF condition = "custom" THEN {"ok", "error"}
  ELSE IF \E p \in Phases : result[p] = "failed" THEN {"error"}
  ELSE {"ok"}

BuildOver ==
  /\ at = "fail"
  /\ \E o \in Outcomes : Exit(o)
  /\ UNCHANGED <<vars, cur, ph, result, past, condition>>

BTerminated ==
  /\ Gone \/ at = "blocked"
  /\ UNCHANGED bvars

-----------------------------------------------------------------------------
Run ==
  /\ main # "crashed"
  /\ \/ Prepare("pr", "files")
     \/ Prepare("files", "params")
     \/ Prepare("params", "skip")
     \/ Prepare("skip", "next")
     \/ SkipBuild
     \/ GetPhase
     \/ Register
     \/ CheckSkipPhase
     \/ EnterPhase
     \/ BlockInPush
     \/ PhaseStep
     \/ PhaseOver
     \/ Record
     \/ OutputResultPanics
     \/ AllPhasesRun
     \/ BuildOver

BNext ==
  \/ Run
  \/ \E t \in Tasks : PhaseGoroutine(t)
  \/ PhaseCanceller
  \/ \E p \in Phases, t \in Tasks : Late(p, t)
  \/ BSignal
  \/ BCrash
  \/ BTerminated

BSpec == BInit /\ [][BNext]_bvars

\* As in Phase: goroutines that can run do, and commands end.
BFairSpec ==
  /\ BSpec
  /\ WF_bvars(Run)
  /\ WF_bvars(PhaseCanceller)
  /\ \A t \in Tasks : WF_bvars(PhaseGoroutine(t))

-----------------------------------------------------------------------------
(* Properties *)

\* With the default condition of the build, exit code 0 of one that was not
\* cancelled means that no command has failed or is still running of a phase that
\* has a name and the default condition, and no dependencies and scripts, whatever
\* became of the phase after it ended (config.setDefault, Run, runPhase, RunTask).
DefaultConfig(c) ==
  c.fail = "default" /\ c.named /\ \A t \in Tasks : c.dep[t] = {} /\ ~c.script[t]

ExitCodeSound ==
  outcome = "ok" /\ ctx = "live" /\ condition = "default" =>
    \A p \in Phases : DefaultConfig(past[p].cfg) =>
      \A t \in Tasks :
        /\ past[p].gor[t] \notin {"acquire", "exec"}
        /\ past[p].res[t] # "cmdfail"

\* The status of a phase, as Pipeline sees it.
PhaseState(p) ==
  IF result[p] # "none" THEN result[p]
  ELSE IF p = cur /\ at \in {"register", "check", "running", "blocked", "record", "panicked"}
       THEN "running"
  ELSE "pending"

PhaseStates == [p \in Phases |-> PhaseState(p)]
Strict == condition = "default"
BuildOutcome == IF at = "panicked" \/ main = "crashed" THEN "died" ELSE outcome

Line == INSTANCE Pipeline
          WITH Length <- NPhases, strict <- Strict, phase <- PhaseStates,
               outcome <- BuildOutcome

\* The build implements Pipeline: early exits, conditions that fail, signals
\* and crashes included, phases run in order and once, and a failed one shows.
ImplementsPipeline == Line!Spec

\* A signal ends the build, whatever phase it finds it in: every later phase is
\* cancelled from the start (signal.Handle, runPhase); only a phase whose items
\* have expanded to nothing never ends.
CancelEndsBuild == (ctx = "cancelled") ~> (Gone \/ at = "blocked")

\* Every build ends, whatever fails in it and whatever goroutines it leaves
\* behind, but for a task stuck in "running" and for a phase whose items have
\* expanded to nothing (Run, runPhase).
BuildEnds == <>(Gone \/ at = "blocked" \/ \E t \in Tasks : Stuck(t))

-----------------------------------------------------------------------------
(* What the documentation says and the code does not do *)

\* The commands of every phase that run.
RunningCommands ==
  {r \in Phases \X Tasks :
     \/ past[r[1]].gor[r[2]] = "exec"
     \/ at = "running" /\ r[1] = cur /\ gor[r[2]] = "exec"}

\* README, parallelism: "The maximum number of tasks which are run in
\* parallel", of a build that was not cancelled.
BuildParallelism ==
  Limited /\ ctx = "live" => Cardinality(RunningCommands) <= Parallelism

\* signal.Handle: "This is useful to support canceling by signal."
SignalEndsBuild == (ctx = "cancelled") ~> Gone

\* README: "Phases are run not in parallel but sequentially."  runPhase returns
\* no error for a phase without tasks, and the build goes on.
EmptyPhaseIsNoError == at # "panicked"
=============================================================================
