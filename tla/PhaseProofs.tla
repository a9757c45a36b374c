---------------------------- MODULE PhaseProofs ----------------------------
(***************************************************************************)
(* Proofs that the scheduler of a phase satisfies its safety properties,   *)
(* for every number of tasks, every limit and every set of configurations. *)
(*                                                                         *)
(* IInv is proved one conjunct at a time, each lemma assuming the          *)
(* conjuncts it needs; Inductive puts them together.                       *)
(***************************************************************************)
EXTENDS Phase, FiniteSetTheorems, TLAPS

-----------------------------------------------------------------------------
(* Counting tasks *)

LEMMA TasksFinite == IsFiniteSet(Tasks) /\ Cardinality(Tasks) = N
BY PhaseAssumption, FS_Interval DEF Tasks

LEMMA SubsetFinite ==
  ASSUME NEW S \in SUBSET Tasks
  PROVE  IsFiniteSet(S) /\ Cardinality(S) \in Nat /\ Cardinality(S) <= N
BY TasksFinite, FS_Subset, FS_CardinalityType

\* A step of task t that enters S, or leaves it, changes its size by one.
LEMMA AddTask ==
  ASSUME NEW S \in SUBSET Tasks, NEW t \in Tasks, t \notin S
  PROVE  Cardinality(S \cup {t}) = Cardinality(S) + 1
BY SubsetFinite, FS_AddElement

LEMMA RemoveTask ==
  ASSUME NEW S \in SUBSET Tasks, NEW t \in S
  PROVE  Cardinality(S \ {t}) = Cardinality(S) - 1 /\ Cardinality(S) >= 1
<1>1. IsFiniteSet(S \ {t}) /\ Cardinality(S \ {t}) = Cardinality(S) - 1
  BY SubsetFinite, FS_RemoveElement
<1>2. Cardinality(S \ {t}) \in Nat /\ Cardinality(S) \in Nat
  BY <1>1, SubsetFinite, FS_CardinalityType
<1> QED BY <1>1, <1>2

LEMMA ExecutingIsSet == Executing \in SUBSET Tasks /\ Pushed \in SUBSET Tasks
BY DEF Executing, Pushed

-----------------------------------------------------------------------------
(* Types and tokens: giving back a token needs one to be there. *)

LEMMA ReleaseNat ==
  ASSUME TypeOK, TokenCount, NEW t \in Tasks, gor[t] = "exec", ReleaseToken
  PROVE  tokens' \in Nat
<1>1. t \in Executing
  BY DEF Executing
<1>2. Cardinality(Executing) \in Nat /\ Cardinality(Executing) >= 1
  BY <1>1, RemoveTask, SubsetFinite, ExecutingIsSet
<1> QED BY <1>2 DEF TypeOK, TokenCount, ReleaseToken

LEMMA TypeStep ==
  ASSUME TypeOK, TokenCount, StatusInv, [Next]_vars
  PROVE  TypeOK'
<1> USE PhaseAssumption DEF TypeOK, StatusType, MainType, GorType, ResType, VerdictType
<1>1. CASE PushFirst \/ Receive
  BY <1>1 DEF PushFirst, Receive, Push, QueueCap
<1>2. CASE EndOfRange \/ StillRunning \/ WritePhase \/ WriteLast \/ Crash
  BY <1>2 DEF EndOfRange, StillRunning, WritePhase, WriteLast, Crash
<1>3. ASSUME NEW t \in Tasks, RunTask(t)
      PROVE  TypeOK'
  <2>1. t + 1 \in 1 .. N + 1
    BY DEF Tasks
  <2> QED
    BY <1>3, <2>1 DEF RunTask, RunTaskPass, RunTaskNotReady, RunTaskSkip, RunTaskFail,
       RunTaskUnknownType, RunTaskStart, DeferredSet, AtQueued, Leave
<1>4. CASE AllFinished \/ NoRunning \/ CancelClose
  BY <1>4 DEF AllFinished, NoRunning, CancelClose
<1>5. CASE EvalFail
  BY <1>5 DEF EvalFail, FailResults
<1>6. ASSUME NEW t \in Tasks, Acquire(t)
      PROVE  TypeOK'
  BY <1>6 DEF Acquire, AcquireToken
<1>7. ASSUME NEW t \in Tasks, CommandSucceeds(t) \/ CommandFails(t)
      PROVE  TypeOK'
  BY <1>7, ReleaseNat DEF CommandSucceeds, CommandFails
<1>8. ASSUME NEW t \in Tasks, Publish(t) \/ Output(t) \/ Final(t)
      PROVE  TypeOK'
  BY <1>8 DEF Publish, Output, Final
<1>9. ASSUME NEW t \in Tasks, PushEvent(t)
      PROVE  TypeOK'
  BY <1>9 DEF PushEvent, Push, QueueCap
<1>10. CASE Signal
  BY <1>10 DEF Signal
<1>11. CASE UNCHANGED vars
  BY <1>11 DEF vars
<1> HIDE DEF TypeOK, StatusType, MainType, GorType, ResType, VerdictType
<1> QED
  BY <1>1, <1>2, <1>3, <1>4, <1>5, <1>6, <1>7, <1>8, <1>9, <1>10, <1>11
  DEF Next, Main, Goroutine, Environment, Canceller, Terminated

LEMMA TokenStep ==
  ASSUME TypeOK, TokenCount, StatusInv, [Next]_vars
  PROVE  TokenCount'
<1>1. ASSUME NEW t \in Tasks, Acquire(t)
      PROVE  TokenCount'
  <2>1. t \notin Executing /\ Executing' = Executing \cup {t}
    BY <1>1 DEF Acquire, Executing, TypeOK
  <2>2. Cardinality(Executing') = Cardinality(Executing) + 1
    BY <2>1, AddTask, ExecutingIsSet
  <2> QED
    BY <1>1, <2>2, PhaseAssumption DEF Acquire, AcquireToken, TokenCount, TypeOK, Limited
<1>2. ASSUME NEW t \in Tasks, CommandSucceeds(t) \/ CommandFails(t)
      PROVE  TokenCount'
  <2>1. t \in Executing /\ Executing' = Executing \ {t}
    BY <1>2 DEF CommandSucceeds, CommandFails, Executing, TypeOK
  <2>2. Cardinality(Executing') = Cardinality(Executing) - 1
    BY <2>1, RemoveTask, ExecutingIsSet
  <2> QED
    BY <1>2, <2>2, PhaseAssumption
    DEF CommandSucceeds, CommandFails, ReleaseToken, TokenCount, TypeOK, Limited
<1>3. ASSUME UNCHANGED tokens, Executing' = Executing
      PROVE  TokenCount'
  BY <1>3 DEF TokenCount, Limited
<1>4. ASSUME NEW t \in Tasks,
             RunTaskStart(t) \/ Publish(t) \/ Output(t) \/ Final(t) \/ PushEvent(t)
      PROVE  UNCHANGED tokens /\ Executing' = Executing
  BY <1>4 DEF RunTaskStart, AtQueued, StatusInv, Publish, Output, Final, PushEvent,
     Executing, TypeOK
<1>5. ASSUME UNCHANGED <<tokens, gor>>
      PROVE  UNCHANGED tokens /\ Executing' = Executing
  BY <1>5 DEF Executing
<1> QED
  BY <1>1, <1>2, <1>3, <1>4, <1>5
  DEF Next, Main, RunTask, Goroutine, Environment, Canceller, Terminated, vars,
      PushFirst, Receive, EndOfRange, RunTaskPass, RunTaskNotReady, RunTaskSkip,
      RunTaskFail, RunTaskUnknownType, DeferredSet, AllFinished, NoRunning,
      StillRunning, WritePhase, WriteLast, EvalFail, Crash, Signal, CancelClose

-----------------------------------------------------------------------------
(* Events: every one in the channel is owed to a goroutine that has ended. *)

LEMMA QueueStep ==
  ASSUME TypeOK, QueueCount, StatusInv, [Next]_vars
  PROVE  QueueCount'
<1>0. Cardinality(Pushed) \in Nat
  BY SubsetFinite, ExecutingIsSet
<1>1. CASE PushFirst
  <2>1. Pushed' = Pushed
    BY <1>1 DEF PushFirst, Pushed
  <2> QED
    BY <1>0, <1>1, <2>1 DEF PushFirst, Push, QueueCount, StatusInv, TypeOK
<1>2. CASE Receive
  <2>1. Pushed' = Pushed
    BY <1>2 DEF Receive, Pushed
  <2> QED
    BY <1>0, <1>2, <2>1 DEF Receive, QueueCount, TypeOK
<1>3. CASE EndOfRange
  <2>1. Pushed' = Pushed
    BY <1>3 DEF EndOfRange, Pushed
  <2> QED
    BY <1>0, <1>3, <2>1 DEF EndOfRange, QueueCount, TypeOK
<1>4. ASSUME NEW t \in Tasks, PushEvent(t)
      PROVE  QueueCount'
  <2>1. t \notin Pushed /\ Pushed' = Pushed \cup {t}
    BY <1>4 DEF PushEvent, Pushed, TypeOK
  <2>2. Cardinality(Pushed') = Cardinality(Pushed) + 1
    BY <2>1, AddTask, ExecutingIsSet
  <2> QED
    BY <1>0, <1>4, <2>2 DEF PushEvent, Push, QueueCount, TypeOK
<1>5. ASSUME NEW t \in Tasks,
             \/ RunTaskStart(t) \/ Acquire(t) \/ CommandSucceeds(t)
             \/ CommandFails(t) \/ Publish(t) \/ Output(t) \/ Final(t)
      PROVE  QueueCount'
  <2>1. Pushed' = Pushed
    BY <1>5 DEF RunTaskStart, AtQueued, StatusInv, Acquire, CommandSucceeds,
       CommandFails, Publish, Output, Final, Pushed, TypeOK
  <2>2. UNCHANGED queued /\ queued <= Cardinality(Pushed)
    BY <1>5 DEF RunTaskStart, AtQueued, Acquire, CommandSucceeds, CommandFails,
       Publish, Output, Final, QueueCount
  <2> QED BY <2>1, <2>2 DEF QueueCount
<1>6. ASSUME UNCHANGED <<queued, gor>>, main = "recv" => main' = "recv"
      PROVE  QueueCount'
  <2>1. Pushed' = Pushed
    BY <1>6 DEF Pushed
  <2> QED BY <1>6, <2>1 DEF QueueCount
<1> QED
  BY <1>1, <1>2, <1>3, <1>4, <1>5, <1>6
  DEF Next, Main, RunTask, Goroutine, Environment, Canceller, Terminated, vars,
      AtQueued, Leave, RunTaskPass, RunTaskNotReady, RunTaskSkip, RunTaskFail,
      RunTaskUnknownType, DeferredSet, AllFinished, NoRunning, StillRunning,
      WritePhase, WriteLast, EvalFail, MapRace, Crash, Signal, CancelClose

-----------------------------------------------------------------------------
(* A task's status, its goroutine and its result *)

LEMMA StatusStep ==
  ASSUME TypeOK, StatusInv, [Next]_vars
  PROVE  StatusInv'
<1> USE DEF TypeOK, StatusInv
<1>1. CASE PushFirst \/ Receive
  BY <1>1 DEF PushFirst, Receive
<1>2. ASSUME NEW t \in Tasks,
             \/ RunTaskPass(t) \/ RunTaskNotReady(t) \/ RunTaskSkip(t)
             \/ RunTaskFail(t) \/ RunTaskUnknownType(t)
      PROVE  StatusInv'
  BY <1>2 DEF RunTaskPass, RunTaskNotReady, RunTaskSkip, RunTaskFail,
     RunTaskUnknownType, AtQueued, Leave
<1>3. ASSUME NEW t \in Tasks, RunTaskStart(t) \/ DeferredSet(t)
      PROVE  StatusInv'
  BY <1>3 DEF RunTaskStart, AtQueued, DeferredSet
<1>4. ASSUME NEW t \in Tasks,
             \/ Acquire(t) \/ CommandSucceeds(t) \/ CommandFails(t)
             \/ Publish(t) \/ Output(t)
      PROVE  StatusInv'
  BY <1>4 DEF Acquire, CommandSucceeds, CommandFails, Publish, Output
<1>5. ASSUME NEW t \in Tasks, Final(t) \/ PushEvent(t)
      PROVE  StatusInv'
  BY <1>5 DEF Final, PushEvent
<1>6. ASSUME UNCHANGED <<status, queued, idx, gor>>,
             main' \in {"push", "defer"} => UNCHANGED main
      PROVE  StatusInv'
  BY <1>6
<1> HIDE DEF TypeOK, StatusInv
<1> QED
  BY <1>1, <1>2, <1>3, <1>4, <1>5, <1>6
  DEF Next, Main, RunTask, Goroutine, Environment, Canceller, Terminated, vars,
      EndOfRange, AllFinished, NoRunning, StillRunning, WritePhase, WriteLast,
      EvalFail, Crash, Signal, CancelClose

LEMMA FailureStep ==
  ASSUME TypeOK, StatusInv, FailureInv, [Next]_vars
  PROVE  FailureInv'
<1> USE DEF TypeOK, FailureInv
<1>1. ASSUME NEW t \in Tasks,
             \/ RunTaskNotReady(t) \/ RunTaskSkip(t) \/ RunTaskFail(t)
             \/ RunTaskUnknownType(t) \/ RunTaskStart(t)
      PROVE  FailureInv'
  \* The task is in "queue": it has no result yet.
  <2>1. res[t] # "cmdfail"
    BY <1>1 DEF RunTaskNotReady, RunTaskSkip, RunTaskFail, RunTaskUnknownType,
       RunTaskStart, AtQueued
  <2> QED
    BY <1>1, <2>1 DEF RunTaskNotReady, RunTaskSkip, RunTaskFail, RunTaskUnknownType,
       RunTaskStart, Leave
<1>2. ASSUME NEW t \in Tasks, DeferredSet(t)
      PROVE  FailureInv'
  BY <1>2 DEF DeferredSet
<1>3. ASSUME NEW t \in Tasks, Acquire(t) \/ CommandSucceeds(t) \/ Publish(t) \/ Output(t)
      PROVE  FailureInv'
  BY <1>3 DEF Acquire, CommandSucceeds, Publish, Output
<1>4. ASSUME NEW t \in Tasks, CommandFails(t)
      PROVE  FailureInv'
  BY <1>4 DEF CommandFails, StatusInv
<1>5. ASSUME NEW t \in Tasks, Final(t) \/ PushEvent(t)
      PROVE  FailureInv'
  BY <1>5 DEF Final, PushEvent
<1>6. ASSUME UNCHANGED <<status, gor, res>>
      PROVE  FailureInv'
  BY <1>6
<1> HIDE DEF TypeOK, FailureInv
<1> QED
  BY <1>1, <1>2, <1>3, <1>4, <1>5, <1>6
  DEF Next, Main, RunTask, Goroutine, Environment, Canceller, Terminated, vars,
      PushFirst, Receive, EndOfRange, RunTaskPass, AllFinished, NoRunning,
      StillRunning, WritePhase, WriteLast, EvalFail, Crash, Signal, CancelClose

-----------------------------------------------------------------------------
(* Dependencies *)

LEMMA CfgFixed ==
  ASSUME [Next]_vars
  PROVE  UNCHANGED cfg
BY DEF Next, Main, RunTask, Goroutine, Environment, Canceller, Terminated, vars,
   PushFirst, Receive, EndOfRange, RunTaskPass, RunTaskNotReady, RunTaskSkip,
   RunTaskFail, RunTaskUnknownType, RunTaskStart, DeferredSet, AllFinished,
   NoRunning, StillRunning, WritePhase, WriteLast, EvalFail, Crash, Acquire,
   CommandSucceeds, CommandFails, Publish, Output, Final, PushEvent, Signal,
   CancelClose

LEMMA DependsOnFixed ==
  ASSUME [Next]_vars, NEW t \in Tasks
  PROVE  DependsOn(t)' = DependsOn(t)
BY CfgFixed DEF DependsOn, Get

LEMMA DependsOnTasks ==
  ASSUME NEW t \in Tasks
  PROVE  DependsOn(t) \subseteq Tasks
BY DEF DependsOn, Get

\* What IsReady has established when it answers yes.
LEMMA ReadyDependencies ==
  ASSUME NEW t \in Tasks, TRUE \in Readiness(t), NEW u \in DependsOn(t)
  PROVE  u \in Tasks /\ IsFinished(status[u])
<1>1. NamesFinished(t)
  BY DEF Readiness
<1> QED BY <1>1 DEF NamesFinished, DependsOn, Get

LEMMA ReadyNames ==
  ASSUME NEW t \in Tasks, TRUE \in Readiness(t), NEW n \in cfg.dep[t]
  PROVE  Get(n) # {}
<1>1. NamesFinished(t)
  BY DEF Readiness
<1> QED BY <1>1 DEF NamesFinished

\* The dependency u of a task is settled: it will never run its command.
Settled(u) ==
  \/ gor[u] \in {"output", "final", "push", "done"}
  \/ gor[u] = "none" /\ IsFinished(status[u])

\* A task that is finished in the list is settled, and one in "queue" is not.
LEMMA FinishedSettled ==
  ASSUME TypeOK, StatusInv, NEW u \in Tasks
  PROVE  /\ IsFinished(status[u]) => Settled(u)
         /\ status[u] = "queue" => ~Settled(u)
BY DEF TypeOK, GorType, StatusInv, IsFinished, Settled

\* Settled is stable: no step of the loop or of a goroutine undoes it.
LEMMA SettledStable ==
  ASSUME TypeOK, StatusInv, [Next]_vars, NEW u \in Tasks, Settled(u)
  PROVE  Settled(u)'
<1> USE DEF TypeOK, Settled
<1>1. ASSUME NEW t \in Tasks,
             \/ RunTaskNotReady(t) \/ RunTaskSkip(t) \/ RunTaskFail(t)
             \/ RunTaskUnknownType(t) \/ RunTaskStart(t)
      PROVE  Settled(u)'
  <2>1. t # u
    BY <1>1, FinishedSettled DEF RunTaskNotReady, RunTaskSkip, RunTaskFail,
       RunTaskUnknownType, RunTaskStart, AtQueued
  <2> QED
    BY <1>1, <2>1 DEF RunTaskNotReady, RunTaskSkip, RunTaskFail, RunTaskUnknownType,
       RunTaskStart, Leave
<1>2. ASSUME NEW t \in Tasks, DeferredSet(t)
      PROVE  Settled(u)'
  BY <1>2 DEF DeferredSet, StatusInv
<1>3. ASSUME NEW t \in Tasks,
             \/ Acquire(t) \/ CommandSucceeds(t) \/ CommandFails(t)
             \/ Publish(t) \/ Output(t) \/ Final(t) \/ PushEvent(t)
      PROVE  Settled(u)'
  BY <1>3 DEF Acquire, CommandSucceeds, CommandFails, Publish, Output, Final, PushEvent
<1>4. ASSUME UNCHANGED <<status, gor>>
      PROVE  Settled(u)'
  BY <1>4
<1> HIDE DEF TypeOK, Settled
<1> QED
  BY <1>1, <1>2, <1>3, <1>4
  DEF Next, Main, RunTask, Goroutine, Environment, Canceller, Terminated, vars,
      PushFirst, Receive, EndOfRange, RunTaskPass, AllFinished, NoRunning,
      StillRunning, WritePhase, WriteLast, EvalFail, Crash, Signal, CancelClose

\* Only RunTaskStart starts a goroutine.
LEMMA OnlyStartStarts ==
  ASSUME TypeOK, [Next]_vars, NEW t \in Tasks, gor[t] = "none", gor'[t] # "none"
  PROVE  RunTaskStart(t)
BY DEF TypeOK, Next, Main, RunTask, Goroutine, Environment, Canceller, Terminated, vars,
       PushFirst, Receive, EndOfRange, RunTaskPass, RunTaskNotReady, RunTaskSkip,
       RunTaskFail, RunTaskUnknownType, RunTaskStart, DeferredSet, AllFinished,
       NoRunning, StillRunning, WritePhase, WriteLast, EvalFail, Crash, Acquire,
       CommandSucceeds, CommandFails, Publish, Output, Final, PushEvent, Signal,
       CancelClose

LEMMA DependencyStep ==
  ASSUME TypeOK, StatusInv, DependencyOrder, [Next]_vars
  PROVE  DependencyOrder'
<1> SUFFICES ASSUME NEW t \in Tasks, gor'[t] # "none"
             PROVE  /\ \A n \in cfg.dep[t] : Get(n) # {}
                    /\ \A u \in DependsOn(t) : Settled(u)'
  BY CfgFixed, DependsOnFixed DEF DependencyOrder, Settled, Get
<1>1. CASE gor[t] # "none"
  BY <1>1, DependsOnTasks, SettledStable DEF DependencyOrder, Settled
<1>2. CASE gor[t] = "none"
  <2>1. RunTaskStart(t)
    BY <1>2, OnlyStartStarts
  <2>2. \A n \in cfg.dep[t] : Get(n) # {}
    BY <2>1, ReadyNames DEF RunTaskStart
  <2>3. \A u \in DependsOn(t) : u \in Tasks /\ Settled(u)
    BY <2>1, DependsOnTasks, ReadyDependencies, FinishedSettled DEF RunTaskStart
  <2> QED BY <2>2, <2>3, SettledStable
<1> QED BY <1>1, <1>2

-----------------------------------------------------------------------------
(* Wake-ups *)

\* There is a task whose goroutine will push an event, or one that is stuck.
LEMMA WakeStep ==
  ASSUME TypeOK, StatusInv, WakeInv, [Next]_vars
  PROVE  WakeInv'
<1> USE DEF TypeOK, WakeInv
<1>1. CASE StillRunning
  <2>1. PICK t \in Tasks : status[t] = "running"
    BY <1>1 DEF StillRunning
  <2>2. Live(t)' \/ Stuck(t)'
    BY <1>1, <2>1 DEF StillRunning, Live, Stuck
  <2> QED BY <2>2
<1>2. ASSUME NEW t \in Tasks,
             \/ Acquire(t) \/ CommandSucceeds(t) \/ CommandFails(t)
             \/ Publish(t) \/ Output(t) \/ Final(t)
      PROVE  WakeInv'
  \* Whatever the witness was, t itself is one now.
  <2>1. Live(t)'
    BY <1>2 DEF Acquire, CommandSucceeds, CommandFails, Publish, Output, Final, Live
  <2> QED BY <2>1
<1>3. ASSUME NEW t \in Tasks, PushEvent(t)
      PROVE  WakeInv'
  BY <1>3 DEF PushEvent, Push
<1>4. CASE PushFirst
  BY <1>4 DEF PushFirst, Push
<1>5. ASSUME main' \notin {"write", "recv"} \/ closed'
      PROVE  WakeInv'
  BY <1>5
<1>6. ASSUME UNCHANGED <<status, queued, closed, gor, idx>>,
             main \in {"write", "recv"}, main' \in {"write", "recv"}
      PROVE  WakeInv'
  <2>1. ASSUME NEW t \in Tasks
        PROVE  Live(t)' = Live(t) /\ Stuck(t)' = Stuck(t)
    BY <1>6 DEF Live, Stuck
  <2> QED BY <1>6, <2>1
<1> HIDE DEF TypeOK, WakeInv
<1> QED
  BY <1>1, <1>2, <1>3, <1>4, <1>5, <1>6
  DEF Next, Main, RunTask, Goroutine, Environment, Canceller, Terminated, vars,
      Receive, EndOfRange, RunTaskPass, RunTaskNotReady, RunTaskSkip, RunTaskFail,
      RunTaskUnknownType, RunTaskStart, AtQueued, Leave, DeferredSet, AllFinished,
      NoRunning, WritePhase, WriteLast, EvalFail, MapRace, Crash, Signal, CancelClose

-----------------------------------------------------------------------------
(* Phases without dependencies *)

LEMMA IndependentReady ==
  ASSUME Independent, NEW t \in Tasks
  PROVE  Readiness(t) = {TRUE}
BY DEF Independent, Readiness, NamesFinished

\* A task that has left "queue" never gets back to it.
LEMMA NeverRequeued ==
  ASSUME TypeOK, [Next]_vars, NEW u \in Tasks, status[u] # "queue"
  PROVE  status'[u] # "queue"
<1> USE DEF TypeOK
<1>1. ASSUME NEW t \in Tasks, RunTask(t)
      PROVE  status'[u] # "queue"
  BY <1>1 DEF RunTask, RunTaskPass, RunTaskNotReady, RunTaskSkip, RunTaskFail,
     RunTaskUnknownType, RunTaskStart, AtQueued, Leave, DeferredSet
<1>2. ASSUME NEW t \in Tasks, Goroutine(t)
      PROVE  status'[u] # "queue"
  BY <1>2 DEF Goroutine, Acquire, CommandSucceeds, CommandFails, Publish, Output,
     Final, PushEvent
<1>3. ASSUME UNCHANGED status
      PROVE  status'[u] # "queue"
  BY <1>3
<1> HIDE DEF TypeOK
<1> QED
  BY <1>1, <1>2, <1>3
  DEF Next, Main, Environment, Canceller, Terminated, vars, PushFirst, Receive,
      EndOfRange, AllFinished, NoRunning, StillRunning, WritePhase, WriteLast,
      EvalFail, Crash, Signal, CancelClose

LEMMA ScanStep ==
  ASSUME TypeOK, StatusInv, ScanInv, [Next]_vars
  PROVE  ScanInv'
<1> SUFFICES ASSUME Independent, main' \in {"scan", "defer"},
                    NEW u \in Tasks, u < idx'
             PROVE  status'[u] # "queue"
  BY CfgFixed DEF ScanInv, Independent
<1>1. CASE Receive
  BY <1>1 DEF Receive, Tasks
<1>2. ASSUME NEW t \in Tasks, main \in {"scan", "defer"}, idx = t, idx' = t + 1,
             status'[t] # "queue"
      PROVE  status'[u] # "queue"
  <2>1. CASE u = t
    BY <1>2, <2>1
  <2>2. CASE u # t
    BY <1>2, <2>2, NeverRequeued DEF ScanInv, Tasks
  <2> QED BY <2>1, <2>2
<1>3. ASSUME NEW t \in Tasks,
             \/ RunTaskPass(t) \/ RunTaskNotReady(t) \/ RunTaskSkip(t)
             \/ RunTaskFail(t) \/ RunTaskUnknownType(t) \/ DeferredSet(t)
      PROVE  status'[u] # "queue"
  BY <1>2, <1>3, IndependentReady
  DEF TypeOK, RunTaskPass, RunTaskNotReady, RunTaskSkip, RunTaskFail,
      RunTaskUnknownType, DeferredSet, AtQueued, Leave
<1>4. ASSUME main \in {"scan", "defer"}, UNCHANGED idx
      PROVE  status'[u] # "queue"
  BY <1>4, NeverRequeued DEF ScanInv
<1> QED
  BY <1>1, <1>3, <1>4
  DEF Next, Main, RunTask, Goroutine, Environment, Canceller, Terminated, vars,
      PushFirst, EndOfRange, RunTaskStart, AtQueued, AllFinished, NoRunning,
      StillRunning, WritePhase, WriteLast, EvalFail, MapRace, Crash, Acquire,
      CommandSucceeds, CommandFails, Publish, Output, Final, PushEvent, Signal,
      CancelClose

\* Once the queue of such a phase is closed, unless by a cancellation, every
\* task is finished and no step makes it anything else.
LEMMA CloseStep ==
  ASSUME TypeOK, StatusInv, ScanInv, CloseInv, [Next]_vars
  PROVE  CloseInv'
<1> USE DEF TypeOK, CloseInv
<1>1. CASE AllFinished
  BY <1>1, CfgFixed DEF AllFinished, Independent, IsFinished
<1>2. CASE NoRunning
  <2>1. ~Independent
    BY <1>2, PhaseAssumption DEF NoRunning, ScanInv, Tasks
  <2> QED BY <1>2, <2>1, CfgFixed DEF NoRunning, Independent
<1>3. ASSUME NEW t \in Tasks, RunTask(t)
      PROVE  CloseInv'
  <2>1. ~(Independent /\ closed /\ ctx = "live") \/ RunTaskPass(t)
    BY <1>3 DEF RunTask, RunTaskNotReady, RunTaskSkip, RunTaskFail, RunTaskUnknownType,
       RunTaskStart, AtQueued, DeferredSet, IsFinished
  <2>2. UNCHANGED <<closed, ctx, verdict>> /\ main \in {"scan", "defer"}
        /\ main' \in {"scan", "defer"}
    BY <1>3 DEF RunTask, RunTaskPass, RunTaskNotReady, RunTaskSkip, RunTaskFail,
       RunTaskUnknownType, RunTaskStart, AtQueued, Leave, DeferredSet
  <2> QED BY <2>1, <2>2, CfgFixed DEF RunTaskPass, Independent
<1>4. ASSUME NEW t \in Tasks, Goroutine(t)
      PROVE  CloseInv'
  <2>1. UNCHANGED <<closed, ctx, verdict, main>>
    BY <1>4 DEF Goroutine, Acquire, CommandSucceeds, CommandFails, Publish, Output,
       Final, PushEvent
  <2>2. ASSUME NEW u \in Tasks, IsFinished(status[u])
        PROVE  IsFinished(status'[u])
    BY <1>4, <2>2 DEF Goroutine, Acquire, CommandSucceeds, CommandFails, Publish,
       Output, Final, PushEvent, IsFinished
  <2> QED BY <2>1, <2>2, CfgFixed DEF Independent, IsFinished
<1>5. CASE Signal \/ CancelClose
  BY <1>5 DEF Signal, CancelClose
<1>6. CASE EvalFail
  BY <1>6, CfgFixed DEF EvalFail, Independent, IsFinished
<1>7. CASE Crash
  BY <1>7, CfgFixed DEF Crash, MapRace, Independent, IsFinished
<1>8. CASE PushFirst \/ Receive \/ EndOfRange \/ StillRunning \/ WritePhase \/ WriteLast
  BY <1>8, CfgFixed
  DEF PushFirst, Receive, EndOfRange, StillRunning, WritePhase, WriteLast,
      Independent, IsFinished
<1>9. CASE UNCHANGED vars
  BY <1>9 DEF vars, Independent, IsFinished
<1> HIDE DEF TypeOK, CloseInv
<1> QED
  BY <1>1, <1>2, <1>3, <1>4, <1>5, <1>6, <1>7, <1>8, <1>9
  DEF Next, Main, Environment, Canceller, Terminated

LEMMA VerdictStep ==
  ASSUME TypeOK, StatusInv, FailureInv, CloseInv, VerdictSound, [Next]_vars
  PROVE  VerdictSound'
<1> SUFFICES ASSUME verdict' = "succeeded", ctx' = "live", Independent,
                    cfg.fail = "default", cfg.named, NEW u \in Tasks
             PROVE  gor'[u] \notin {"acquire", "exec"} /\ res'[u] # "cmdfail"
  BY CfgFixed DEF VerdictSound, Independent, Active
<1>1. CASE EvalFail
  <2>1. IsFinished(status[u]) /\ status[u] # "failed"
    BY <1>1 DEF EvalFail, CloseInv, FailResults, TypeOK
  <2>2. gor[u] \notin {"acquire", "exec"} /\ res[u] # "cmdfail"
    BY <2>1 DEF StatusInv, FailureInv, IsFinished
  <2> QED BY <1>1, <2>2 DEF EvalFail
<1>2. CASE verdict = "succeeded"
  <2>1. main = "done" /\ ctx = "live"
    BY <1>2 DEF CloseInv, TypeOK, Next, Main, RunTask, Goroutine, Environment, Canceller,
       Terminated, vars, PushFirst, Receive, EndOfRange, RunTaskPass, RunTaskNotReady,
       RunTaskSkip, RunTaskFail, RunTaskUnknownType, RunTaskStart, AtQueued, DeferredSet,
       AllFinished, NoRunning, StillRunning, WritePhase, WriteLast, EvalFail, MapRace,
       Crash, Acquire, CommandSucceeds, CommandFails, Publish, Output, Final, PushEvent,
       Signal, CancelClose
  <2>2. gor[u] \notin {"acquire", "exec"} /\ res[u] # "cmdfail"
    BY <1>2, <2>1 DEF VerdictSound, Active
  <2>3. ASSUME NEW t \in Tasks, Goroutine(t)
        PROVE  gor'[u] \notin {"acquire", "exec"} /\ res'[u] # "cmdfail"
    BY <2>2, <2>3 DEF TypeOK, Goroutine, Acquire, CommandSucceeds, CommandFails, Publish,
       Output, Final, PushEvent
  <2>4. ASSUME UNCHANGED <<gor, res>>
        PROVE  gor'[u] \notin {"acquire", "exec"} /\ res'[u] # "cmdfail"
    BY <2>2, <2>4
  <2> QED
    BY <2>1, <2>3, <2>4
    DEF Next, Main, RunTask, Environment, Canceller, Terminated, vars, PushFirst, Receive,
        EndOfRange, RunTaskPass, RunTaskNotReady, RunTaskSkip, RunTaskFail,
        RunTaskUnknownType, RunTaskStart, AtQueued, DeferredSet, AllFinished, NoRunning,
        StillRunning, WritePhase, WriteLast, EvalFail, Crash, Signal, CancelClose
<1>3. CASE ~EvalFail /\ verdict # "succeeded"
  BY <1>3
  DEF Next, Main, RunTask, Goroutine, Environment, Canceller, Terminated, vars,
      PushFirst, Receive, EndOfRange, RunTaskPass, RunTaskNotReady, RunTaskSkip,
      RunTaskFail, RunTaskUnknownType, RunTaskStart, DeferredSet, AllFinished,
      NoRunning, StillRunning, WritePhase, WriteLast, Crash, Acquire,
      CommandSucceeds, CommandFails, Publish, Output, Final, PushEvent, Signal,
      CancelClose
<1> QED BY <1>1, <1>2, <1>3

-----------------------------------------------------------------------------
(* The inductive invariant *)

LEMMA Initial ==
  ASSUME Init
  PROVE  IInv
<1>1. TypeOK
  <2>1. cfg \in ConfigType
    BY PhaseAssumption DEF Init
  <2>2. queued \in 0 .. N /\ tokens \in Nat /\ idx \in 1 .. N + 1
    BY PhaseAssumption DEF Init
  <2> QED
    BY <2>1, <2>2
    DEF Init, TypeOK, StatusType, MainType, GorType, ResType, VerdictType
<1>2. TokenCount
  <2>1. Executing = {}
    BY DEF Init, Executing
  <2> QED BY <2>1, FS_EmptySet, PhaseAssumption DEF Init, TokenCount, Limited
<1>3. QueueCount
  <2>1. Pushed = {}
    BY DEF Init, Pushed
  <2> QED BY <2>1, FS_EmptySet DEF Init, QueueCount
<1>4. StatusInv /\ FailureInv /\ DependencyOrder /\ WakeInv
  BY DEF Init, StatusInv, FailureInv, DependencyOrder, WakeInv
<1>5. ScanInv /\ CloseInv /\ VerdictSound
  BY DEF Init, ScanInv, CloseInv, VerdictSound
<1> QED BY <1>1, <1>2, <1>3, <1>4, <1>5 DEF IInv

LEMMA Inductive ==
  ASSUME IInv, [Next]_vars
  PROVE  IInv'
<1>1. TypeOK' /\ TokenCount'
  BY TypeStep, TokenStep DEF IInv
<1>2. QueueCount' /\ StatusInv' /\ FailureInv'
  BY QueueStep, StatusStep, FailureStep DEF IInv
<1>3. DependencyOrder' /\ WakeInv'
  BY DependencyStep, WakeStep DEF IInv
<1>4. ScanInv' /\ CloseInv' /\ VerdictSound'
  BY ScanStep, CloseStep, VerdictStep DEF IInv
<1> QED BY <1>1, <1>2, <1>3, <1>4 DEF IInv

\* IInv holds of every reachable state of every instance of the scheduler.
THEOREM Invariance == Spec => []IInv
<1>1. Init => IInv
  BY Initial
<1>2. IInv /\ [Next]_vars => IInv'
  BY Inductive
<1> QED BY <1>1, <1>2, PTL DEF Spec

-----------------------------------------------------------------------------
(* The properties *)

\* Every variable keeps its type: no token is given back that was not taken,
\* and the channel of events never holds more than it was made for.
THEOREM TypeOKHolds == Spec => []TypeOK
<1>1. IInv => TypeOK
  BY DEF IInv
<1> QED BY <1>1, Invariance, PTL

\* TaskQueue: at most Parallelism commands of a phase run at a time.
THEOREM ParallelismBoundHolds == Spec => []ParallelismBound
<1>1. IInv => ParallelismBound
  BY DEF IInv, TokenCount, ParallelismBound, Executing
<1> QED BY <1>1, Invariance, PTL

\* EventQueue: the channel made with one place per task has a free one whenever
\* a goroutine pushes, so that no Push blocks while it holds the mutex.
THEOREM NoBlockedPushHolds == Spec => []NoBlockedPush
<1>1. ASSUME IInv
      PROVE  NoBlockedPush
  <2> SUFFICES ASSUME NEW t \in Tasks, gor[t] = "push"
               PROVE  queued < N
    BY DEF NoBlockedPush, QueueCap
  <2>1. queued <= Cardinality(Pushed)
    BY <1>1 DEF IInv, QueueCount
  <2>2. t \notin Pushed
    BY DEF Pushed
  <2>3. Cardinality(Pushed \cup {t}) = Cardinality(Pushed) + 1
        /\ Cardinality(Pushed \cup {t}) <= N
    BY <2>2, AddTask, ExecutingIsSet, SubsetFinite
  <2>4. Cardinality(Pushed) \in Nat
    BY SubsetFinite, ExecutingIsSet
  <2> QED BY <1>1, <2>1, <2>3, <2>4, PhaseAssumption DEF IInv, TypeOK
<1> QED BY <1>1, Invariance, PTL

\* IsReady: a task that was started depends on nothing that is still to run.
THEOREM DependencyOrderHolds == Spec => []DependencyOrder
<1>1. IInv => DependencyOrder
  BY DEF IInv
<1> QED BY <1>1, Invariance, PTL

\* runPhase: the loop does not sleep while something could wake it up.
THEOREM NoLostWakeupHolds == Spec => []NoLostWakeup
<1>1. IInv => NoLostWakeup
  BY DEF IInv, WakeInv, NoLostWakeup
<1> QED BY <1>1, Invariance, PTL

\* The default condition of config.setDefault: "succeeded" says something.
THEOREM VerdictSoundHolds == Spec => []VerdictSound
<1>1. IInv => VerdictSound
  BY DEF IInv
<1> QED BY <1>1, Invariance, PTL

\* RunTask: no lost update makes the scheduler start a task again.
THEOREM StartedOnceHolds == Spec => StartedOnce
<1>1. ASSUME IInv, [Next]_vars, NEW t \in Tasks, gor[t] # "none", gor'[t] = "acquire"
      PROVE  gor[t] = "acquire"
  <2>1. ASSUME NEW u \in Tasks, RunTaskStart(u)
        PROVE  gor[t] = "acquire"
    BY <1>1, <2>1 DEF RunTaskStart, AtQueued, IInv, StatusInv, TypeOK
  <2>2. ASSUME NEW u \in Tasks, Goroutine(u)
        PROVE  gor[t] = "acquire"
    BY <1>1, <2>2 DEF IInv, TypeOK, Goroutine, Acquire, CommandSucceeds, CommandFails,
       Publish, Output, Final, PushEvent
  <2> QED
    BY <1>1, <2>1, <2>2
    DEF Next, Main, RunTask, Environment, Canceller, Terminated, vars, PushFirst,
        Receive, EndOfRange, RunTaskPass, RunTaskNotReady, RunTaskSkip, RunTaskFail,
        RunTaskUnknownType, DeferredSet, AllFinished, NoRunning, StillRunning,
        WritePhase, WriteLast, EvalFail, Crash, Signal, CancelClose
<1>2. IInv /\ [Next]_vars =>
        [\A t \in Tasks : gor[t] # "none" /\ gor'[t] = "acquire" => gor[t] = "acquire"]_vars
  BY <1>1
<1> QED BY <1>2, Invariance, PTL DEF Spec, StartedOnce

\* Phase.Run: the loop closes the queue only when no command is under way.
THEOREM ClosedWhenIdleHolds == Spec => ClosedWhenIdle
<1>1. ASSUME IInv, [Next]_vars, ~closed, closed', ctx = "live", NEW t \in Tasks
      PROVE  ~Active(t)
  <2>1. CASE AllFinished
    BY <1>1, <2>1 DEF AllFinished, IsFinished, IInv, StatusInv, Active
  <2>2. CASE NoRunning
    BY <1>1, <2>2 DEF NoRunning, IInv, StatusInv, Active
  <2> QED
    BY <1>1, <2>1, <2>2
    DEF Next, Main, RunTask, Goroutine, Environment, Canceller, Terminated, vars,
        PushFirst, Receive, EndOfRange, RunTaskPass, RunTaskNotReady, RunTaskSkip,
        RunTaskFail, RunTaskUnknownType, RunTaskStart, DeferredSet, StillRunning,
        WritePhase, WriteLast, EvalFail, Crash, Acquire, CommandSucceeds,
        CommandFails, Publish, Output, Final, PushEvent, Signal, CancelClose
<1>2. IInv /\ [Next]_vars =>
        [~closed /\ closed' /\ ctx = "live" => \A t \in Tasks : ~Active(t)]_vars
  BY <1>1
<1> QED BY <1>2, Invariance, PTL DEF Spec, ClosedWhenIdle

-----------------------------------------------------------------------------
(* Refinement: every step of the scheduler is a step of TaskGraph or none. *)

\* A task that is settled for its dependents is settled for TaskGraph.
LEMMA SettledJob ==
  ASSUME TypeOK, StatusInv, NEW u \in Tasks, IsFinished(status[u])
  PROVE  JobState(u) = "settled"
BY DEF TypeOK, StatusInv, IsFinished, JobState, Active

\* Only the task that takes a step can change its state in TaskGraph.
LEMMA OneJob ==
  ASSUME NEW t \in Tasks, NEW s, JobState(t)' = s,
         \A u \in Tasks \ {t} : gor'[u] = gor[u] /\ status'[u] = status[u]
  PROVE  JobStates' = [JobStates EXCEPT ![t] = s]
<1>1. \A u \in Tasks \ {t} : JobState(u)' = JobState(u)
  BY DEF JobState, Active
<1> QED BY <1>1 DEF JobStates

LEMMA SameJobs ==
  ASSUME \A u \in Tasks : JobState(u)' = JobState(u)
  PROVE  UNCHANGED JobStates
BY DEF JobStates

LEMMA AfterFixed ==
  ASSUME [Next]_vars
  PROVE  UNCHANGED AfterOf
BY DependsOnFixed DEF AfterOf

\* RunTask takes a task up only when TaskGraph may.
LEMMA TakeUp ==
  ASSUME TypeOK, StatusInv, NEW t \in Tasks, AtQueued(t), TRUE \in Readiness(t)
  PROVE  Graph!MayTakeUp(t)
<1>1. ~LoopOver
  BY DEF AtQueued, LoopOver
<1>2. JobStates[t] = "waiting"
  BY DEF AtQueued, StatusInv, JobStates, JobState
<1>3. \A u \in AfterOf[t] : JobStates[u] = "settled"
  BY ReadyDependencies, SettledJob DEF AfterOf, JobStates
<1> QED BY <1>1, <1>2, <1>3 DEF Graph!MayTakeUp

LEMMA RefinesInit ==
  ASSUME Init
  PROVE  Graph!Init
<1>1. AfterOf \in [Tasks -> SUBSET Tasks]
  BY DependsOnTasks DEF AfterOf
<1>2. JobStates = [t \in Tasks |-> "waiting"]
  BY DEF Init, JobStates, JobState
<1>3. LoopOver = FALSE
  BY DEF Init, LoopOver
<1> QED BY <1>1, <1>2, <1>3 DEF Graph!Init

LEMMA RefinesStep ==
  ASSUME TypeOK, StatusInv, [Next]_vars
  PROVE  [Graph!Next]_(Graph!vars)
<1> USE AfterFixed
<1>1. ASSUME NEW t \in Tasks, RunTaskSkip(t) \/ RunTaskFail(t)
      PROVE  Graph!Drop(t)
  <2>1. Graph!MayTakeUp(t)
    BY <1>1, TakeUp DEF RunTaskSkip, RunTaskFail
  <2>2. JobState(t)' = "settled"
    BY <1>1 DEF RunTaskSkip, RunTaskFail, AtQueued, Leave, TypeOK, StatusInv, JobState
  <2>3. JobStates' = [JobStates EXCEPT ![t] = "settled"]
    BY <1>1, <2>2, OneJob DEF RunTaskSkip, RunTaskFail, Leave, TypeOK
  <2>4. UNCHANGED LoopOver
    BY <1>1 DEF RunTaskSkip, RunTaskFail, Leave, LoopOver
  <2> QED BY <2>1, <2>3, <2>4 DEF Graph!Drop
<1>2. ASSUME NEW t \in Tasks, RunTaskUnknownType(t) \/ RunTaskStart(t)
      PROVE  Graph!Start(t)
  <2>1. Graph!MayTakeUp(t)
    BY <1>2, TakeUp DEF RunTaskUnknownType, RunTaskStart
  <2>2. JobState(t)' = "active"
    BY <1>2 DEF RunTaskUnknownType, RunTaskStart, AtQueued, Leave, TypeOK, StatusInv,
       JobState, Active
  <2>3. JobStates' = [JobStates EXCEPT ![t] = "active"]
    BY <1>2, <2>2, OneJob DEF RunTaskUnknownType, RunTaskStart, Leave, TypeOK
  <2>4. ~LoopOver /\ ~LoopOver'
    BY <1>2 DEF RunTaskUnknownType, RunTaskStart, AtQueued, Leave, LoopOver
  <2> QED BY <2>1, <2>3, <2>4 DEF LoopOver, Graph!Start
<1>3. ASSUME NEW t \in Tasks, CommandSucceeds(t) \/ CommandFails(t)
      PROVE  Graph!Settle(t)
  <2>1. JobStates[t] = "active"
    BY <1>3 DEF CommandSucceeds, CommandFails, JobStates, JobState, Active
  <2>2. JobState(t)' = "settled"
    BY <1>3 DEF CommandSucceeds, CommandFails, TypeOK, JobState, Active
  <2>3. JobStates' = [JobStates EXCEPT ![t] = "settled"]
    BY <1>3, <2>2, OneJob DEF CommandSucceeds, CommandFails, TypeOK
  <2>4. UNCHANGED LoopOver
    BY <1>3 DEF CommandSucceeds, CommandFails, LoopOver
  <2> QED BY <2>1, <2>3, <2>4 DEF Graph!Settle
<1>4. CASE EndOfRange \/ Crash
  <2>1. \A u \in Tasks : JobState(u)' = JobState(u)
    BY <1>4 DEF EndOfRange, Crash, JobState, Active
  <2>2. LoopOver'
    BY <1>4 DEF EndOfRange, Crash, LoopOver
  <2>3. LoopOver \/ ~LoopOver
    OBVIOUS
  <2> QED BY <2>1, <2>2, <2>3, SameJobs DEF LoopOver, Graph!End, Graph!Next, Graph!vars
<1>5. ASSUME NEW t \in Tasks, \/ RunTaskNotReady(t) \/ DeferredSet(t) \/ Acquire(t)
                              \/ Publish(t) \/ Output(t) \/ Final(t) \/ PushEvent(t)
      PROVE  UNCHANGED <<AfterOf, JobStates, LoopOver>>
  <2>1. \A u \in Tasks : JobState(u)' = JobState(u)
    BY <1>5 DEF RunTaskNotReady, AtQueued, Leave, DeferredSet, Acquire, Publish, Output,
       Final, PushEvent, TypeOK, StatusInv, JobState, Active
  <2>2. UNCHANGED main \/ (main = "defer" /\ main' = "scan")
    BY <1>5 DEF RunTaskNotReady, Leave, DeferredSet, Acquire, Publish, Output, Final,
       PushEvent
  <2> QED BY <2>1, <2>2, SameJobs DEF LoopOver
<1>6. ASSUME UNCHANGED <<status, gor>>, LoopOver' = LoopOver
      PROVE  UNCHANGED <<AfterOf, JobStates, LoopOver>>
  BY <1>6, SameJobs DEF JobState, Active
<1> QED
  BY <1>1, <1>2, <1>3, <1>4, <1>5, <1>6
  DEF Next, Main, RunTask, Goroutine, Environment, Canceller, Terminated, vars,
      PushFirst, Receive, RunTaskPass, AllFinished, NoRunning, StillRunning,
      WritePhase, WriteLast, EvalFail, Signal, CancelClose, LoopOver,
      Graph!Next, Graph!vars

\* The scheduler implements TaskGraph.
THEOREM ImplementsTaskGraphHolds == Spec => ImplementsTaskGraph
<1>1. Init => Graph!Init
  BY RefinesInit
<1>2. IInv /\ [Next]_vars => [Graph!Next]_(Graph!vars)
  BY RefinesStep DEF IInv
<1> QED BY <1>1, <1>2, Invariance, PTL DEF Spec, ImplementsTaskGraph, Graph!Spec
=============================================================================
