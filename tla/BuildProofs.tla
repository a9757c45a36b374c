---------------------------- MODULE BuildProofs ----------------------------
(***************************************************************************)
(* Proofs about a whole build, for every number of phases and of tasks.    *)
(*                                                                         *)
(* The phase the build is at satisfies the invariant of PhaseProofs; what  *)
(* is new is how its verdict, the results of the phases before it and the  *)
(* goroutines they left behind go together with the exit code.             *)
(***************************************************************************)
EXTENDS Build, PhaseProofs

Over == {"skipped", "failed", "succeeded"}

\* The phase the build is at: a scheduler that has not started, but while it runs.
ScheduleInv ==
  /\ IInv
  /\ cfg \in Configs
  /\ main = "done" => verdict # "none"
  /\ at # "running" => main \in {"push", "crashed"}

\* The types of what Build adds to Phase.
RunOK ==
  /\ at \in AtType
  /\ cur \in 1 .. NPhases + 1
  /\ ph \in [status : Statuses, then : {"go on", "exit", "error", "panic"}]
  /\ result \in [Phases -> Statuses]
  /\ past \in [Phases -> PastType]
  /\ condition \in {"default", "custom"}
  /\ outcome \in {"none", "ok", "error"}

\* Every phase before the one the build is at has a status, and none after it;
\* what runPhase is about to return is one, but for a phase without tasks.
Before == {"pr", "files", "params", "skip"}
Within == {"register", "check", "running", "blocked", "record", "panicked"}

OrderInv ==
  /\ at \in Before => cur = 1
  /\ at \in Within => cur \in Phases
  /\ \A p \in Phases :
       /\ p < cur => result[p] # "none"
       /\ p > cur => result[p] = "none"
       /\ p = cur /\ at \notin {"fail", "ended"} => result[p] = "none"
  /\ at = "record" =>
       \/ ph.then = "panic" /\ ph.status = "none"
       \/ ph.then # "panic" /\ ph.status \in Over
  /\ outcome = "none" <=> at # "ended"

\* A phase that is over has failed, or has nothing left that could fail it.
Clean(p) ==
  DefaultConfig(past[p].cfg) =>
    \A t \in Tasks :
      /\ past[p].gor[t] \notin {"acquire", "exec"}
      /\ past[p].res[t] # "cmdfail"

FailedPhase(p) ==
  \/ result[p] = "failed"
  \/ p = cur /\ at = "record" /\ ph.status = "failed"

ExitInv ==
  /\ ctx = "live" => \A p \in Phases : Clean(p) \/ FailedPhase(p)
  /\ outcome = "ok" /\ condition = "default" => \A p \in Phases : result[p] # "failed"

BIInv == ScheduleInv /\ RunOK /\ OrderInv /\ ExitInv

-----------------------------------------------------------------------------
(* The phase the build is at *)

\* What the steps of the build that are not the scheduler's leave alone.
Control ==
  \/ Prepare("pr", "files") \/ Prepare("files", "params")
  \/ Prepare("params", "skip") \/ Prepare("skip", "next")
  \/ SkipBuild \/ GetPhase \/ Register \/ CheckSkipPhase \/ EnterPhase \/ BlockInPush
  \/ Record \/ OutputResultPanics \/ AllPhasesRun \/ BuildOver

LEMMA ControlFrame ==
  ASSUME Control
  PROVE  UNCHANGED vars /\ UNCHANGED <<past, condition>>
BY DEF Control, Prepare, SkipBuild, GetPhase, Register, CheckSkipPhase, EnterPhase,
       BlockInPush, Record, OutputResultPanics, AllPhasesRun, BuildOver

\* Every step is one of the scheduler of the phase, one of the rest of the
\* build, the end of a phase, one of a goroutine left behind, or a crash.
LEMMA StepKinds ==
  ASSUME [BNext]_bvars
  PROVE  \/ at = "running" /\ Next /\ UNCHANGED run
         \/ BSignal
         \/ main # "crashed" /\ Control
         \/ main # "crashed" /\ PhaseOver
         \/ \E p \in Phases, t \in Tasks : Late(p, t)
         \/ BCrash
         \/ UNCHANGED bvars
<1>1. CASE Run
  <2>1. CASE PhaseStep
    BY <2>1 DEF PhaseStep, Next
  <2> QED BY <1>1, <2>1 DEF Run, Control
<1>2. CASE (\E t \in Tasks : PhaseGoroutine(t)) \/ PhaseCanceller
  BY <1>2 DEF PhaseGoroutine, PhaseCanceller, Next
<1> QED BY <1>1, <1>2 DEF BNext, BTerminated

LEMMA SignalIsNext ==
  ASSUME BSignal
  PROVE  Next /\ UNCHANGED run /\ UNCHANGED main
BY DEF BSignal, Gone, Next, Environment, Signal

\* A crash finds the loop where it writes the map, and the rest as it was.
LEMMA CrashStep ==
  ASSUME ScheduleInv, BCrash
  PROVE  ScheduleInv'
<1>1. main \in {"push", "write", "leave"} /\ main' = "crashed"
  BY DEF BCrash, Gone, Writing, ScheduleInv
<1>2. UNCHANGED <<cfg, status, queued, closed, tokens, idx, gor, res, ctx, verdict, run>>
  BY DEF BCrash
<1>3. verdict = "none"
  BY <1>1 DEF ScheduleInv, IInv, CloseInv
<1>4. TypeOK' /\ TokenCount' /\ FailureInv' /\ DependencyOrder'
  BY <1>1, <1>2
  DEF ScheduleInv, IInv, TypeOK, MainType, TokenCount, Executing, FailureInv,
      DependencyOrder, DependsOn, Get
<1>5. QueueCount' /\ StatusInv' /\ WakeInv' /\ ScanInv'
  BY <1>1, <1>2
  DEF ScheduleInv, IInv, QueueCount, Pushed, StatusInv, WakeInv, ScanInv
<1>6. CloseInv' /\ VerdictSound'
  BY <1>1, <1>2, <1>3
  DEF ScheduleInv, IInv, CloseInv, Independent, VerdictSound
<1>7. IInv'
  BY <1>4, <1>5, <1>6 DEF IInv
<1> QED BY <1>1, <1>2, <1>7 DEF ScheduleInv

LEMMA InitialPhase == Init => IInv
BY Initial

LEMMA ScheduleStep ==
  ASSUME ScheduleInv, [BNext]_bvars
  PROVE  ScheduleInv'
<1>1. ASSUME Next, UNCHANGED run, at = "running" \/ UNCHANGED main
      PROVE  ScheduleInv'
  <2>1. IInv'
    BY <1>1, Inductive DEF ScheduleInv
  <2>2. cfg' = cfg
    BY <1>1, CfgFixed
  <2>3. main' = "done" => verdict' # "none"
    <3>1. CASE EvalFail
      BY <3>1 DEF EvalFail, FailResults
    <3>2. CASE main' = main /\ verdict' = verdict
      BY <3>2 DEF ScheduleInv
    <3>3. CASE main' # "done"
      BY <3>3
    <3> QED
      BY <1>1, <3>1, <3>2, <3>3
      DEF Next, Main, RunTask, Goroutine, Environment, Canceller, Terminated, vars,
          PushFirst, Receive, EndOfRange, RunTaskPass, RunTaskNotReady, RunTaskSkip,
          RunTaskFail, RunTaskUnknownType, Leave, RunTaskStart, DeferredSet, AllFinished,
          NoRunning, StillRunning, WritePhase, WriteLast, Crash, Acquire,
          CommandSucceeds, CommandFails, Publish, Output, Final, PushEvent, Signal,
          CancelClose
  <2> QED BY <1>1, <2>1, <2>2, <2>3 DEF ScheduleInv, run
<1>2. CASE BSignal
  BY <1>1, <1>2, SignalIsNext
<1>3. CASE Control
  <2>1. UNCHANGED vars
    BY <1>3, ControlFrame
  <2>2. IInv'
    BY <2>1, Inductive DEF ScheduleInv
  <2>3. at' # "running" => main \in {"push", "crashed"}
    BY <1>3
    DEF ScheduleInv, Control, Prepare, SkipBuild, GetPhase, Register, CheckSkipPhase, EnterPhase,
        BlockInPush, Record, OutputResultPanics, AllPhasesRun, BuildOver, Return, Exit
  <2> QED BY <2>1, <2>2, <2>3 DEF ScheduleInv, vars
<1>4. CASE PhaseOver
  <2>1. cfg' \in Configs /\ ctx' \in {"live", "cancelled"}
    BY <1>4 DEF PhaseOver, NewPhase, ScheduleInv, IInv, TypeOK
  <2>2. Init'
    BY <1>4, <2>1 DEF PhaseOver, NewPhase, NoTask, Init
  <2>3. IInv'
    BY <2>2, InitialPhase, PTL
  <2> QED BY <1>4, <2>1, <2>3 DEF PhaseOver, NewPhase, ScheduleInv
<1>5. ASSUME NEW p \in Phases, NEW t \in Tasks, Late(p, t)
      PROVE  ScheduleInv'
  <2>1. UNCHANGED vars /\ at' = at
    BY <1>5 DEF Late
  <2>2. IInv'
    BY <2>1, Inductive DEF ScheduleInv
  <2> QED BY <2>1, <2>2 DEF ScheduleInv, vars
<1>6. CASE UNCHANGED bvars
  <2>1. UNCHANGED vars /\ at' = at
    BY <1>6 DEF bvars, run
  <2>2. IInv'
    BY <2>1, Inductive DEF ScheduleInv
  <2> QED BY <2>1, <2>2 DEF ScheduleInv, vars
<1> QED BY <1>1, <1>2, <1>3, <1>4, <1>5, <1>6, StepKinds, CrashStep

-----------------------------------------------------------------------------
(* Types, and the order of the phases *)

LEMMA CurInPhases ==
  ASSUME OrderInv, at \in Within
  PROVE  cur \in Phases /\ cur \in Nat /\ cur + 1 \in 1 .. NPhases + 1
<1>1. cur \in Phases
  BY DEF OrderInv
<1> QED BY <1>1, BuildAssumption DEF Phases

LEMMA Returned ==
  ASSUME NEW s, NEW then, Return(s, then)
  PROVE  ph'.status = s /\ ph'.then = then /\ at' = "record"
BY DEF Return

LEMMA ReturnType ==
  ASSUME NEW s \in Statuses, NEW then \in {"go on", "exit", "error", "panic"},
         Return(s, then)
  PROVE  ph' \in [status : Statuses, then : {"go on", "exit", "error", "panic"}]
BY DEF Return

\* What runPhase returns of a phase that has run.
LEMMA PhaseReturns ==
  ASSUME ScheduleInv, PhaseOver
  PROVE  \E s \in {"failed", "succeeded"}, then \in ExitCondition :
           /\ Return(s, then)
           /\ verdict \in {"failed", "error"} => s = "failed"
           /\ s = "succeeded" => verdict = "succeeded"
<1>1. verdict \in {"succeeded", "failed", "error"}
  BY DEF PhaseOver, ScheduleInv, IInv, TypeOK, VerdictType
<1>2. CASE verdict = "error"
  BY <1>2 DEF PhaseOver, ExitCondition
<1>3. CASE verdict # "error"
  BY <1>1, <1>3 DEF PhaseOver
<1> QED BY <1>2, <1>3

LEMMA RunTypeStep ==
  ASSUME ScheduleInv, RunOK, OrderInv, [BNext]_bvars
  PROVE  RunOK'
<1>1. CASE UNCHANGED run
  BY <1>1 DEF run, RunOK
<1>2. CASE Control
  <2>1. UNCHANGED <<past, condition>>
    BY <1>2, ControlFrame
  <2>2. CASE \/ Prepare("pr", "files") \/ Prepare("files", "params")
             \/ Prepare("params", "skip") \/ Prepare("skip", "next")
    BY <2>1, <2>2 DEF Prepare, Exit, RunOK, AtType
  <2>3. CASE SkipBuild \/ BuildOver
    BY <2>1, <2>3 DEF SkipBuild, BuildOver, Outcomes, Exit, RunOK, AtType
  <2>4. CASE Register \/ EnterPhase \/ BlockInPush \/ OutputResultPanics \/ AllPhasesRun
    BY <2>1, <2>4
    DEF Register, EnterPhase, BlockInPush, OutputResultPanics, AllPhasesRun, RunOK, AtType
  <2>5. CASE GetPhase \/ CheckSkipPhase
    <3>1. UNCHANGED <<cur, result, outcome>>
      BY <2>5 DEF GetPhase, CheckSkipPhase
    <3>2. \/ at' = "register" /\ UNCHANGED ph
          \/ \E s \in {"none", "failed", "skipped"}, then \in {"go on", "panic"} : Return(s, then)
      BY <2>5 DEF GetPhase, CheckSkipPhase
    <3>3. at' \in AtType /\ ph' \in [status : Statuses, then : {"go on", "exit", "error", "panic"}]
      BY <3>2, ReturnType, Returned DEF RunOK, AtType, Statuses
    <3> QED BY <2>1, <3>1, <3>3 DEF RunOK
  <2>6. CASE Record
    <3>1. cur \in Phases /\ cur + 1 \in 1 .. NPhases + 1
      BY <2>6, CurInPhases DEF Record, Within
    <3>2. result' \in [Phases -> Statuses]
      BY <2>6 DEF Record, RunOK
    <3>3. cur' \in 1 .. NPhases + 1 /\ at' \in AtType /\ outcome' \in {"none", "ok", "error"}
      BY <2>6, <3>1 DEF Record, Exit, RunOK, AtType
    <3> QED BY <2>1, <2>6, <3>2, <3>3 DEF Record, RunOK
  <2> QED BY <1>2, <2>2, <2>3, <2>4, <2>5, <2>6 DEF Control
<1>3. CASE PhaseOver
  <2>1. at' = "record" /\ UNCHANGED <<cur, result, condition, outcome>>
    BY <1>3 DEF PhaseOver, Return
  <2>3. ph' \in [status : Statuses, then : {"go on", "exit", "error", "panic"}]
    BY <1>3, PhaseReturns, ReturnType DEF ExitCondition, Statuses
  <2>4. past' \in [Phases -> PastType]
    <3>1. [cfg |-> cfg, gor |-> gor, res |-> res] \in PastType
      BY DEF ScheduleInv, IInv, TypeOK, PastType
    <3> QED BY <1>3, <3>1 DEF PhaseOver, RunOK
  <2> QED BY <2>1, <2>3, <2>4 DEF RunOK, AtType
<1>4. ASSUME NEW p \in Phases, NEW t \in Tasks, Late(p, t)
      PROVE  RunOK'
  <2>1. ASSUME NEW g \in GorType, past' = [past EXCEPT ![p].gor[t] = g]
        PROVE  past' \in [Phases -> PastType]
    BY <2>1 DEF RunOK, PastType
  <2>2. ASSUME NEW g \in GorType, NEW r \in ResType,
               past' = [past EXCEPT ![p].gor[t] = g, ![p].res[t] = r]
        PROVE  past' \in [Phases -> PastType]
    BY <2>2 DEF RunOK, PastType
  <2>3. past' \in [Phases -> PastType]
    BY <1>4, <2>1, <2>2
    DEF Late, LateAcquire, LateCommand, LateMove, GorType, ResType
  <2> QED BY <1>4, <2>3 DEF Late, RunOK
<1> QED
  BY <1>1, <1>2, <1>3, <1>4, StepKinds DEF BSignal, BCrash, bvars, run

LEMMA OrderStep ==
  ASSUME ScheduleInv, RunOK, OrderInv, [BNext]_bvars
  PROVE  OrderInv'
<1>1. ASSUME UNCHANGED <<at, cur, ph, result, outcome>>
      PROVE  OrderInv'
  BY <1>1 DEF OrderInv
<1>2. CASE Control
  <2>1. CASE \/ Prepare("pr", "files") \/ Prepare("files", "params")
             \/ Prepare("params", "skip") \/ Prepare("skip", "next")
    BY <2>1 DEF Prepare, Exit, OrderInv, Before, Within
  <2>2. CASE SkipBuild
    BY <2>2 DEF SkipBuild, Exit, OrderInv, Before, Within
  <2>3. CASE BuildOver
    BY <2>3 DEF BuildOver, Outcomes, Exit, OrderInv, Before, Within
  <2>4. CASE Register \/ EnterPhase \/ BlockInPush
    BY <2>4 DEF Register, EnterPhase, BlockInPush, OrderInv, Before, Within
  <2>5. CASE OutputResultPanics \/ AllPhasesRun
    BY <2>5 DEF OutputResultPanics, AllPhasesRun, OrderInv, Before, Within
  <2>6. CASE GetPhase
    <3>1. at = "next" /\ cur \in Phases /\ UNCHANGED <<cur, result, outcome>>
      BY <2>6 DEF GetPhase
    <3>2. \/ at' = "register"
          \/ at' = "record" /\ ph'.status = "none" /\ ph'.then = "panic"
          \/ at' = "record" /\ ph'.status = "failed" /\ ph'.then = "go on"
      BY <2>6, Returned DEF GetPhase
    <3> QED BY <3>1, <3>2 DEF OrderInv, Before, Within, Over
  <2>7. CASE CheckSkipPhase
    <3>1. at = "check" /\ UNCHANGED <<cur, result, outcome>>
      BY <2>7 DEF CheckSkipPhase
    <3>2. at' = "record" /\ ph'.status \in {"failed", "skipped"} /\ ph'.then = "go on"
      BY <2>7, Returned DEF CheckSkipPhase
    <3> QED BY <3>1, <3>2 DEF OrderInv, Before, Within, Over
  <2>8. CASE Record
    <3>1. /\ cur \in Phases /\ ph.status \in Over /\ outcome = "none"
          /\ cur \in Nat
      BY <2>8, CurInPhases DEF Record, OrderInv, Within
    <3>2. /\ result'[cur] = ph.status
          /\ \A p \in Phases \ {cur} : result'[p] = result[p]
      BY <2>8, <3>1 DEF Record, RunOK
    <3>3. \A p \in Phases : /\ p \in Nat
                            /\ p < cur => result'[p] # "none"
                            /\ p = cur => result'[p] # "none"
                            /\ p > cur => result'[p] = "none"
      BY <3>1, <3>2 DEF OrderInv, Over, Phases
    <3>4. CASE cur' = cur /\ at' \in {"fail", "ended"} /\ (outcome' = "none" <=> at' # "ended")
      <4>1. at' \notin Before \cup Within
        BY <3>4 DEF Before, Within
      <4>2. \A p \in Phases : /\ p < cur' => result'[p] # "none"
                              /\ p > cur' => result'[p] = "none"
        BY <3>3, <3>4
      <4> QED BY <3>4, <4>1, <4>2 DEF OrderInv
    <3>5. CASE cur' = cur + 1 /\ at' = "next" /\ outcome' = outcome
      <4>1. at' \notin Before \cup Within
        BY <3>5 DEF Before, Within
      <4>2. \A p \in Phases : /\ p < cur' => p < cur \/ p = cur
                              /\ p > cur' => p > cur
                              /\ p = cur' => p > cur
        BY <3>1, <3>3, <3>5
      <4>3. \A p \in Phases : /\ p < cur' => result'[p] # "none"
                              /\ p > cur' => result'[p] = "none"
                              /\ p = cur' => result'[p] = "none"
        BY <3>3, <4>2
      <4> QED BY <3>1, <3>5, <4>1, <4>3 DEF OrderInv
    <3> QED BY <2>8, <3>1, <3>4, <3>5 DEF Record, Exit
  <2> QED
    BY <1>2, <2>1, <2>2, <2>3, <2>4, <2>5, <2>6, <2>7, <2>8 DEF Control
<1>3. CASE PhaseOver
  <2>1. at = "running" /\ at' = "record" /\ UNCHANGED <<cur, result, outcome>>
    BY <1>3 DEF PhaseOver, Return
  <2>3. ph'.then # "panic" /\ ph'.status \in Over
    BY <1>3, PhaseReturns, Returned DEF ExitCondition, Over
  <2> QED BY <2>1, <2>3 DEF OrderInv, Before, Within
<1>4. ASSUME NEW p \in Phases, NEW t \in Tasks, Late(p, t)
      PROVE  UNCHANGED <<at, cur, ph, result, outcome>>
  BY <1>4 DEF Late
<1> QED
  BY <1>1, <1>2, <1>3, <1>4, StepKinds DEF BSignal, BCrash, bvars, run

-----------------------------------------------------------------------------
(* The exit code *)

LEMMA LiveStays ==
  ASSUME Next, ctx' = "live"
  PROVE  ctx = "live"
BY DEF Next, Main, RunTask, Goroutine, Environment, Canceller, Terminated, vars,
   PushFirst, Receive, EndOfRange, RunTaskPass, RunTaskNotReady, RunTaskSkip,
   RunTaskFail, RunTaskUnknownType, RunTaskStart, DeferredSet, AllFinished,
   NoRunning, StillRunning, WritePhase, WriteLast, EvalFail, Crash, Acquire,
   CommandSucceeds, CommandFails, Publish, Output, Final, PushEvent, Signal,
   CancelClose

\* A goroutine left behind changes nothing of a phase that is clean.
LEMMA CleanStable ==
  ASSUME RunOK, NEW p \in Phases, NEW t \in Tasks, Late(p, t),
         NEW q \in Phases, Clean(q)
  PROVE  Clean(q)'
<1> SUFFICES ASSUME DefaultConfig(past'[q].cfg), NEW u \in Tasks
             PROVE  /\ past'[q].gor[u] \notin {"acquire", "exec"}
                    /\ past'[q].res[u] # "cmdfail"
  BY DEF Clean, DefaultConfig
<1>1. \/ \E g \in GorType : past' = [past EXCEPT ![p].gor[t] = g]
      \/ \E g \in GorType, r \in ResType :
           past' = [past EXCEPT ![p].gor[t] = g, ![p].res[t] = r]
  BY DEF Late, LateAcquire, LateCommand, LateMove, GorType, ResType
<1>2. past'[q].cfg = past[q].cfg
  <2>1. ASSUME NEW g, past' = [past EXCEPT ![p].gor[t] = g]
        PROVE  past'[q].cfg = past[q].cfg
    BY <2>1 DEF RunOK, PastType
  <2>2. ASSUME NEW g, NEW r, past' = [past EXCEPT ![p].gor[t] = g, ![p].res[t] = r]
        PROVE  past'[q].cfg = past[q].cfg
    BY <2>2 DEF RunOK, PastType
  <2> QED BY <1>1, <2>1, <2>2
<1>3. /\ past[q].gor[u] \notin {"acquire", "exec"}
      /\ past[q].res[u] # "cmdfail"
      /\ past[q].gor[t] \notin {"acquire", "exec"}
  BY <1>2 DEF Clean, DefaultConfig
<1>4. CASE q = p
  <2>1. PICK g \in {"output", "done"} : past' = [past EXCEPT ![p].gor[t] = g]
    BY <1>3, <1>4 DEF Late, LateAcquire, LateCommand, LateMove
  <2>2. past'[q].res = past[q].res
    BY <1>4, <2>1 DEF RunOK, PastType
  <2>3. past'[q].gor = [past[q].gor EXCEPT ![t] = g]
    BY <1>4, <2>1 DEF RunOK, PastType
  <2>4. past'[q].gor[u] \in {past[q].gor[u], g}
    BY <2>3 DEF RunOK, PastType
  <2> QED BY <1>3, <2>1, <2>2, <2>4
<1>5. CASE q # p
  <2>1. past'[q] = past[q]
    BY <1>1, <1>5 DEF RunOK
  <2> QED BY <1>3, <2>1
<1> QED BY <1>4, <1>5

LEMMA ExitStep ==
  ASSUME ScheduleInv, RunOK, OrderInv, ExitInv, [BNext]_bvars
  PROVE  ExitInv'
<1>1. ASSUME ctx' = "live" => ctx = "live", UNCHANGED run
      PROVE  ExitInv'
  BY <1>1 DEF ExitInv, Clean, DefaultConfig, FailedPhase, run
<1>2. CASE Control
  <2>1. ctx' = ctx /\ UNCHANGED <<past, condition>>
    BY <1>2, ControlFrame DEF vars
  <2>2. \A p \in Phases : Clean(p) => Clean(p)'
    BY <2>1 DEF Clean, DefaultConfig
  <2>3. ASSUME NEW p \in Phases, FailedPhase(p)
        PROVE  FailedPhase(p)'
    <3>1. CASE Record
      <4>1. /\ at = "record" /\ cur \in Phases /\ result[cur] = "none"
            /\ result' = [result EXCEPT ![cur] = ph.status]
        BY <3>1, CurInPhases DEF Record, OrderInv, Within
      <4>2. p = cur => ph.status = "failed"
        BY <2>3, <4>1 DEF FailedPhase
      <4>3. result'[p] = "failed"
        BY <2>3, <4>1, <4>2 DEF FailedPhase, RunOK
      <4> QED BY <4>3 DEF FailedPhase
    <3>2. CASE ~Record
      <4>1. result' = result
        BY <1>2, <3>2
        DEF Control, Prepare, SkipBuild, GetPhase, Register, CheckSkipPhase, EnterPhase,
            BlockInPush, OutputResultPanics, AllPhasesRun, BuildOver
      <4>2. at = "record" => ph.status # "failed"
        <5>1. at = "record" => OutputResultPanics
          BY <1>2, <3>2
          DEF Control, Prepare, SkipBuild, GetPhase, Register, CheckSkipPhase, EnterPhase,
              BlockInPush, AllPhasesRun, BuildOver
        <5> QED BY <5>1 DEF OutputResultPanics, OrderInv
      <4> QED BY <2>3, <4>1, <4>2 DEF FailedPhase
    <3> QED BY <3>1, <3>2
  <2>4. ASSUME outcome' = "ok", condition' = "default"
        PROVE  \A p \in Phases : result'[p] # "failed"
    <3>1. CASE SkipBuild
      <4>1. cur = 1 /\ result' = result /\ at = "skip"
        BY <3>1 DEF SkipBuild, OrderInv, Before
      <4>2. \A p \in Phases : p > cur \/ p = cur
        BY <4>1 DEF Phases
      <4>3. \A p \in Phases : result[p] = "none"
        BY <4>1, <4>2 DEF OrderInv
      <4> QED BY <4>1, <4>3
    <3>2. CASE BuildOver
      BY <2>1, <2>4, <3>2 DEF BuildOver, Outcomes, Exit
    <3>3. CASE ~SkipBuild /\ ~BuildOver
      <4>1. at # "ended" /\ (outcome' = outcome \/ outcome' = "error")
        BY <1>2, <3>3
        DEF Control, Prepare, GetPhase, Register, CheckSkipPhase, EnterPhase,
            BlockInPush, Record, OutputResultPanics, AllPhasesRun, Exit
      <4> QED BY <2>4, <4>1 DEF OrderInv
    <3> QED BY <3>1, <3>2, <3>3
  <2> QED BY <2>1, <2>2, <2>3, <2>4 DEF ExitInv
<1>3. CASE PhaseOver
  <2>1. /\ at = "running" /\ main = "done" /\ UNCHANGED <<ctx, cur, result, condition, outcome>>
        /\ past' = [past EXCEPT ![cur] = [cfg |-> cfg, gor |-> gor, res |-> res]]
    BY <1>3 DEF PhaseOver, NewPhase
  <2>2. cur \in Phases
    BY <2>1, CurInPhases DEF Within
  <2>3. PICK s \in {"failed", "succeeded"}, then \in ExitCondition :
          Return(s, then) /\ (s = "succeeded" => verdict = "succeeded")
    BY <1>3, PhaseReturns
  <2>4. ph'.status = s /\ at' = "record"
    BY <2>3, Returned
  <2>5. ASSUME ctx = "live", s = "succeeded"
        PROVE  Clean(cur)'
    <3>1. past'[cur] = [cfg |-> cfg, gor |-> gor, res |-> res]
      BY <2>1, <2>2 DEF RunOK
    <3>2. DefaultConfig(cfg) => \A t \in Tasks : ~Active(t) /\ res[t] # "cmdfail"
      BY <2>3, <2>5 DEF DefaultConfig, ScheduleInv, IInv, VerdictSound, Independent
    <3>3. cur' = cur
      BY <2>1
    <3> SUFFICES ASSUME DefaultConfig(past'[cur].cfg), NEW t \in Tasks
                 PROVE  /\ past'[cur].gor[t] \notin {"acquire", "exec"}
                        /\ past'[cur].res[t] # "cmdfail"
      BY <3>3 DEF Clean, DefaultConfig
    <3>4. ~Active(t) /\ res[t] # "cmdfail"
      BY <3>1, <3>2 DEF DefaultConfig
    <3> QED BY <3>1, <3>4 DEF Active
  <2>6. ctx = "live" => Clean(cur)' \/ FailedPhase(cur)'
    BY <2>1, <2>2, <2>3, <2>4, <2>5 DEF FailedPhase
  <2>7. ASSUME NEW p \in Phases, p # cur, Clean(p) \/ FailedPhase(p)
        PROVE  Clean(p)' \/ FailedPhase(p)'
    <3>1. past'[p] = past[p]
      BY <2>1, <2>7 DEF RunOK
    <3> QED BY <2>1, <2>7, <3>1 DEF Clean, DefaultConfig, FailedPhase
  <2> QED BY <2>1, <2>6, <2>7 DEF ExitInv
<1>4. ASSUME NEW p \in Phases, NEW t \in Tasks, Late(p, t)
      PROVE  ExitInv'
  <2>1. UNCHANGED <<ctx, at, cur, ph, result, condition, outcome>>
    BY <1>4 DEF Late, vars
  <2>2. \A q \in Phases : Clean(q) => Clean(q)'
    BY <1>4, CleanStable
  <2> QED BY <2>1, <2>2 DEF ExitInv, FailedPhase
<1>5. CASE Next /\ UNCHANGED run
  BY <1>1, <1>5, LiveStays
<1>6. CASE BSignal
  BY <1>5, <1>6, SignalIsNext
<1>7. CASE BCrash \/ UNCHANGED bvars
  BY <1>1, <1>7 DEF BCrash, bvars, vars, run
<1> QED BY <1>2, <1>3, <1>4, <1>5, <1>6, <1>7, StepKinds

-----------------------------------------------------------------------------
(* The invariant, and the properties *)

LEMMA BInitial ==
  ASSUME BInit
  PROVE  BIInv
<1>1. ScheduleInv
  BY Initial DEF BInit, Init, ScheduleInv
<1>2. RunOK
  <2>1. 1 \in 1 .. NPhases + 1
    BY BuildAssumption
  <2>2. past \in [Phases -> PastType]
    BY <1>1 DEF BInit, NoTask, PastType, ScheduleInv, IInv, TypeOK, GorType, ResType
  <2> QED BY <2>1, <2>2 DEF BInit, RunOK, AtType, Statuses
<1>3. OrderInv
  <2>1. \A p \in Phases : ~(p < 1)
    BY DEF Phases
  <2> QED BY <2>1 DEF BInit, OrderInv, Before, Within
<1>4. ExitInv
  BY DEF BInit, NoTask, ExitInv, Clean, DefaultConfig
<1> QED BY <1>1, <1>2, <1>3, <1>4 DEF BIInv

\* BIInv holds of every reachable state of every build.
THEOREM BInvariance == BSpec => []BIInv
<1>1. BInit => BIInv
  BY BInitial
<1>2. BIInv /\ [BNext]_bvars => BIInv'
  BY ScheduleStep, RunTypeStep, OrderStep, ExitStep DEF BIInv
<1> QED BY <1>1, <1>2, PTL DEF BSpec

\* Types of the build and of the phase it is at, whatever its goroutines left
\* behind do (Controller.Run).
THEOREM BTypeOKHolds == BSpec => []BTypeOK
<1>1. BIInv => BTypeOK
  BY DEF BIInv, ScheduleInv, IInv, RunOK, BTypeOK
<1> QED BY <1>1, BInvariance, PTL

\* Exit code 0 of a build that was not cancelled and whose own condition is the
\* default one says, of each named phase with the default condition whose tasks
\* have no dependencies and no scripts, that no command of it failed or still
\* runs, for any number of phases and of tasks (config.setDefault, Run, runPhase,
\* RunTask).
THEOREM ExitCodeSoundHolds == BSpec => []ExitCodeSound
<1>1. BIInv => ExitCodeSound
  <2> SUFFICES ASSUME BIInv, outcome = "ok", ctx = "live", condition = "default",
                      NEW p \in Phases
               PROVE  Clean(p)
    BY DEF ExitCodeSound, Clean
  <2>1. at = "ended" /\ result[p] # "failed"
    BY DEF BIInv, OrderInv, ExitInv
  <2> QED BY <2>1 DEF BIInv, ExitInv, FailedPhase
<1> QED BY <1>1, BInvariance, PTL

-----------------------------------------------------------------------------
(* Refinement: every step of the build is a step of Pipeline or none. *)

LEMMA PhaseStateOf ==
  ASSUME BIInv, NEW p \in Phases
  PROVE  /\ p \in Nat /\ cur \in Nat
         /\ p < cur => PhaseState(p) = result[p] /\ PhaseState(p) \in Over
         /\ p > cur => PhaseState(p) = "pending"
         /\ p = cur /\ at \in Within => PhaseState(p) = "running"
         /\ p = cur /\ at \in Before \cup {"next"} => PhaseState(p) = "pending"
         /\ at = "fail" => PhaseState(p) \in {result[p], "pending"}
<1>1. p \in Nat /\ cur \in Nat /\ result[p] \in Statuses
  <2>1. p \in Nat
    BY BuildAssumption DEF Phases
  <2>2. cur \in 1 .. NPhases + 1 /\ result \in [Phases -> Statuses]
    BY DEF BIInv, RunOK
  <2>3. cur \in Nat
    BY <2>2, BuildAssumption
  <2> QED BY <2>1, <2>2, <2>3
<1>2. /\ p < cur => result[p] \in Over
      /\ p > cur => result[p] = "none"
      /\ p = cur /\ at \notin {"fail", "ended"} => result[p] = "none"
  BY <1>1 DEF BIInv, OrderInv, Statuses, Over
<1>3. PhaseState(p) = IF result[p] # "none" THEN result[p]
                      ELSE IF p = cur /\ at \in Within THEN "running" ELSE "pending"
  BY DEF PhaseState, Within
<1>4. at \in Before \cup {"next", "fail"} => at \notin Within
  BY DEF Before, Within
<1>5. at \in Before \cup Within \cup {"next"} => at \notin {"fail", "ended"}
  BY DEF Before, Within
<1> QED BY <1>1, <1>2, <1>3, <1>4, <1>5 DEF Over

LEMMA SameStates ==
  ASSUME UNCHANGED <<cur, result>>, at' \in Within <=> at \in Within
  PROVE  PhaseStates' = PhaseStates
BY DEF PhaseStates, PhaseState, Within

\* While the build goes on, so does the one of Pipeline.
LEMMA OutcomeOf ==
  ASSUME BIInv, main # "crashed", at \notin {"ended", "panicked"}
  PROVE  BuildOutcome = "none"
BY DEF BIInv, OrderInv, BuildOutcome

LEMMA LineInit ==
  ASSUME BInit
  PROVE  Line!Init
<1>1. \A p \in Phases : PhaseState(p) = "pending"
  BY DEF BInit, PhaseState
<1>2. PhaseStates = [p \in Phases |-> "pending"] /\ BuildOutcome = "none" /\ Strict \in BOOLEAN
  BY <1>1 DEF BInit, Init, PhaseStates, BuildOutcome, Strict
<1> QED BY <1>2 DEF Line!Init, Line!Steps, Phases

\* runPhase begins with the phase the build is at.
LEMMA LineStart ==
  ASSUME BIInv, BIInv', main # "crashed", GetPhase
  PROVE  Line!Start(cur)
<1>1. /\ at = "next" /\ cur \in Phases /\ at' \in {"record", "register"}
      /\ UNCHANGED <<main, cur, result, condition, outcome>>
  BY DEF GetPhase, Return, vars
<1>2. BuildOutcome = "none" /\ BuildOutcome' = "none" /\ Strict' = Strict
  BY <1>1, OutcomeOf DEF BuildOutcome, Strict
<1>3. PhaseStates[cur] = "pending" /\ \A q \in Phases : q < cur => PhaseStates[q] \in Over
  BY <1>1, PhaseStateOf DEF PhaseStates
<1>4. PhaseStates' = [PhaseStates EXCEPT ![cur] = "running"]
  <2>1. ASSUME NEW p \in Phases
        PROVE  PhaseState(p)' = IF p = cur THEN "running" ELSE PhaseState(p)
    <3>1. result[cur] = "none"
      BY <1>1 DEF BIInv, OrderInv
    <3> QED BY <1>1, <3>1 DEF PhaseState
  <2> QED BY <2>1 DEF PhaseStates
<1> QED
  BY <1>1, <1>2, <1>3, <1>4 DEF Line!Start, Line!Steps, Line!Over, Over, Phases

\* Run records what runPhase has returned, and stops on an error of its own.
LEMMA LineSettle ==
  ASSUME BIInv, main # "crashed", Record
  PROVE  Line!Settle(cur) \/ Line!SettleAndStop(cur)
<1>1. /\ at = "record" /\ cur \in Phases /\ ph.status \in Over /\ outcome = "none"
      /\ result' = [result EXCEPT ![cur] = ph.status]
      /\ UNCHANGED <<main, condition>>
  BY CurInPhases DEF Record, BIInv, OrderInv, Within, vars
<1>2. BuildOutcome = "none" /\ Strict' = Strict
  BY <1>1, OutcomeOf DEF Strict
<1>3. PhaseStates[cur] = "running"
  BY <1>1, PhaseStateOf DEF PhaseStates, Within
<1>4. at' \in {"ended", "fail", "next"} /\ outcome' \in {"none", "error"}
  BY <1>1 DEF Record, Exit
<1>5. BuildOutcome' = outcome'
  BY <1>1, <1>4 DEF BuildOutcome
<1>6. PhaseStates' = [PhaseStates EXCEPT ![cur] = ph.status]
  <2>1. ASSUME NEW p \in Phases
        PROVE  PhaseState(p)' = IF p = cur THEN ph.status ELSE PhaseState(p)
    <3>1. at' \notin Within
      BY <1>4 DEF Within
    <3>2. CASE p = cur
      BY <1>1, <3>2 DEF PhaseState, RunOK, BIInv, Over
    <3>3. CASE p # cur
      BY <1>1, <3>1, <3>3 DEF PhaseState, RunOK, BIInv, Within
    <3> QED BY <3>2, <3>3
  <2> QED BY <2>1 DEF PhaseStates
<1> QED
  BY <1>1, <1>2, <1>3, <1>4, <1>5, <1>6
  DEF Line!Settle, Line!SettleAndStop, Line!Steps, Line!Over, Over, Phases

\* The build ends with the exit code 0 or 1.
LEMMA LineEnd ==
  ASSUME BIInv, main # "crashed", at \in Before \cup {"fail"}, at' = "ended",
         UNCHANGED <<main, cur, result, condition>>, outcome' \in {"ok", "error"},
         outcome' = "ok" /\ condition = "default" => \A p \in Phases : result[p] # "failed"
  PROVE  Line!Succeed \/ Line!Fail
<1>1. at \notin Within /\ at \notin {"ended", "panicked"}
  BY DEF Before, Within
<1>2. PhaseStates' = PhaseStates /\ Strict' = Strict
  BY <1>1, SameStates DEF Strict, Within
<1>3. BuildOutcome = "none" /\ BuildOutcome' = outcome'
  BY <1>1, OutcomeOf DEF BuildOutcome
<1>4. ASSUME outcome' = "ok", NEW p \in Phases
      PROVE  PhaseState(p) # "running" /\ (Strict => PhaseState(p) # "failed")
  BY <1>1, <1>4 DEF PhaseState, Within, Strict, BIInv, RunOK, Statuses
<1> QED
  BY <1>2, <1>3, <1>4 DEF Line!Succeed, Line!Fail, Line!Steps, PhaseStates, Phases

\* The process dies.
LEMMA LineDies ==
  ASSUME BuildOutcome = "none", BuildOutcome' = "died",
         PhaseStates' = PhaseStates, Strict' = Strict
  PROVE  Line!Fail
BY DEF Line!Fail

LEMMA LineStep ==
  ASSUME BIInv, BIInv', [BNext]_bvars
  PROVE  [Line!Next]_Line!vars
<1> DEFINE Stutters == PhaseStates' = PhaseStates /\ Strict' = Strict /\ BuildOutcome' = BuildOutcome
<1>0. Stutters => UNCHANGED Line!vars
  BY DEF Line!vars
<1>1. ASSUME main # "crashed", Control
      PROVE  Stutters \/ Line!Next
  <2>1. CASE GetPhase
    BY <1>1, <2>1, LineStart DEF Line!Next, Line!Steps, GetPhase, Phases
  <2>2. CASE Record
    <3>1. cur \in Phases
      BY <2>2, CurInPhases DEF Record, Within, BIInv
    <3> QED BY <1>1, <2>2, <3>1, LineSettle DEF Line!Next, Line!Steps, Phases
  <2>3. ASSUME NEW here \in Before, NEW there \in Before \cup {"next"}, Prepare(here, there)
        PROVE  Stutters \/ Line!Next
    <3>1. at \in Before /\ UNCHANGED <<main, cur, result, condition>>
      BY <2>3 DEF Prepare, vars
    <3>2. CASE at' = there /\ UNCHANGED outcome
      <4>1. at \notin Within /\ at' \notin Within
        BY <3>1, <3>2 DEF Before, Within
      <4>2. PhaseStates' = PhaseStates
        BY <3>1, <4>1, SameStates
      <4> QED BY <3>1, <3>2, <4>1, <4>2 DEF Strict, BuildOutcome, Within
    <3>3. CASE Exit("error")
      BY <1>1, <3>1, <3>3, LineEnd DEF Exit, Line!Next
    <3> QED BY <2>3, <3>2, <3>3 DEF Prepare
  <2>4. CASE SkipBuild \/ BuildOver
    <3>1. /\ at \in Before \cup {"fail"} /\ at' = "ended" /\ outcome' \in {"ok", "error"}
          /\ UNCHANGED <<main, cur, result, condition>>
      BY <2>4 DEF SkipBuild, BuildOver, Exit, Outcomes, Before, vars
    <3>2. outcome' = "ok" /\ condition = "default" => \A p \in Phases : result[p] # "failed"
      BY <3>1 DEF BIInv, ExitInv
    <3> QED BY <1>1, <3>1, <3>2, LineEnd DEF Line!Next
  <2>5. CASE Register \/ CheckSkipPhase \/ EnterPhase \/ BlockInPush
    <3>1. /\ UNCHANGED <<main, cur, result, condition, outcome>>
          /\ at \in Within /\ at' \in Within /\ at # "panicked" /\ at' # "panicked"
      BY <2>5 DEF Register, CheckSkipPhase, EnterPhase, BlockInPush, Return, Within, vars
    <3>2. PhaseStates' = PhaseStates
      BY <3>1, SameStates
    <3> QED BY <3>1, <3>2 DEF Strict, BuildOutcome
  <2>6. CASE AllPhasesRun
    <3>1. /\ UNCHANGED <<main, cur, result, condition, outcome>>
          /\ at = "next" /\ at' = "fail"
      BY <2>6 DEF AllPhasesRun, vars
    <3>2. PhaseStates' = PhaseStates
      BY <3>1, SameStates DEF Within
    <3> QED BY <3>1, <3>2 DEF Strict, BuildOutcome
  <2>7. CASE OutputResultPanics
    <3>1. /\ UNCHANGED <<cur, result, condition>>
          /\ at = "record" /\ at' = "panicked"
      BY <2>7 DEF OutputResultPanics
    <3>2. PhaseStates' = PhaseStates
      BY <3>1, SameStates DEF Within
    <3>3. BuildOutcome = "none" /\ BuildOutcome' = "died"
      BY <1>1, <3>1, OutcomeOf DEF BuildOutcome
    <3> QED BY <3>1, <3>2, <3>3, LineDies DEF Strict, Line!Next
  <2>8. {"pr", "files", "params", "skip"} = Before
    BY DEF Before
  <2> QED
    BY <1>1, <2>1, <2>2, <2>3, <2>4, <2>5, <2>6, <2>7, <2>8 DEF Control
<1>2. CASE PhaseOver
  <2>1. /\ at = "running" /\ at' = "record" /\ main = "done" /\ main' = "push"
        /\ UNCHANGED <<cur, result, condition, outcome>>
    BY <1>2 DEF PhaseOver, NewPhase, Return
  <2>2. PhaseStates' = PhaseStates
    BY <2>1, SameStates DEF Within
  <2> QED BY <1>0, <2>1, <2>2 DEF Strict, BuildOutcome
<1>3. ASSUME UNCHANGED run, \/ main' = main
                            \/ main' # "crashed" /\ main # "crashed"
                            \/ main' = "crashed" /\ at \notin {"ended", "panicked"}
      PROVE  Stutters \/ Line!Next
  <2>1. PhaseStates' = PhaseStates /\ Strict' = Strict
    BY <1>3, SameStates DEF run, Strict
  <2>2. CASE main' = main \/ (main' # "crashed" /\ main # "crashed")
    BY <1>3, <2>1, <2>2 DEF run, BuildOutcome
  <2>3. CASE main' = "crashed" /\ main # "crashed" /\ at \notin {"ended", "panicked"}
    <3>1. BuildOutcome = "none" /\ BuildOutcome' = "died"
      BY <2>3, OutcomeOf DEF BuildOutcome
    <3> QED BY <2>1, <3>1, LineDies DEF Line!Next
  <2> QED BY <1>3, <2>2, <2>3
<1>4. CASE at = "running" /\ Next /\ UNCHANGED run
  <2>1. main = "crashed" => main' = main
    BY <1>4
    DEF Next, Main, RunTask, Goroutine, Environment, Canceller, Terminated, vars,
        PushFirst, Receive, EndOfRange, RunTaskPass, RunTaskNotReady, RunTaskSkip,
        RunTaskFail, RunTaskUnknownType, AtQueued, RunTaskStart, DeferredSet, AllFinished,
        NoRunning, StillRunning, WritePhase, WriteLast, EvalFail, MapRace, Crash
  <2> QED BY <1>0, <1>3, <1>4, <2>1
<1>5. CASE BSignal
  BY <1>0, <1>3, <1>5, SignalIsNext
<1>6. ASSUME NEW p \in Phases, NEW t \in Tasks, Late(p, t)
      PROVE  [Line!Next]_Line!vars
  <2>1. UNCHANGED <<main, at, cur, result, condition, outcome>>
    BY <1>6 DEF Late, vars
  <2>2. PhaseStates' = PhaseStates
    BY <2>1, SameStates
  <2> QED BY <1>0, <2>1, <2>2 DEF Strict, BuildOutcome
<1>7. CASE BCrash
  BY <1>0, <1>3, <1>7 DEF BCrash, Gone
<1>8. CASE UNCHANGED bvars
  BY <1>0, <1>3, <1>8 DEF bvars, vars
<1> QED BY <1>0, <1>1, <1>2, <1>4, <1>5, <1>6, <1>7, <1>8, StepKinds

\* With early exits, conditions that fail, signals, crashes and goroutines left
\* behind, phases still run in order and once, and a failed one shows
\* (Controller.Run).
THEOREM ImplementsPipelineHolds == BSpec => ImplementsPipeline
<1>1. BInit => Line!Init
  BY LineInit
<1>2. BIInv /\ BIInv' /\ [BNext]_bvars => [Line!Next]_Line!vars
  BY LineStep
<1> QED BY <1>1, <1>2, BInvariance, PTL DEF BSpec, ImplementsPipeline, Line!Spec
=============================================================================
