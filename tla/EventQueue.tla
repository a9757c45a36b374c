----------------------------- MODULE EventQueue -----------------------------
(***************************************************************************)
(* EventQueue from the inside: a Go channel, a flag that says whether it   *)
(* has been closed, and a mutex around both, used by the event loop of     *)
(* runPhase, the goroutine that waits for the context, and the goroutines  *)
(* of the tasks.  Phase takes Push and Close for single steps; this module *)
(* shows why it may: sending on a closed channel, or closing it twice,     *)
(* panics, and a send that blocks keeps the mutex from the one who closes. *)
(***************************************************************************)
EXTENDS Integers, FiniteSets

CONSTANT Goroutines  \* the goroutines runTask that a phase may start

CapBug == Cardinality(Goroutines) - 1

\* newPhase: one place for each task.
Cap == Cardinality(Goroutines)

Loop      == "loop"
Canceller == "canceller"
Procs     == Goroutines \cup {Loop, Canceller}
NoProc    == "none"

ASSUME EventQueueAssumption ==
  /\ IsFiniteSet(Goroutines)
  /\ Goroutines # {}  \* see Phase for a phase with no task
  /\ {Loop, Canceller, NoProc} \cap Goroutines = {}

VARIABLES
  len,         \* len(queue.Queue)
  chanClosed,  \* the channel is closed, to the Go runtime
  closed,      \* queue.closed
  mutex,       \* who holds queue.mutex
  pc           \* where each process is

vars == <<len, chanClosed, closed, mutex, pc>>

Locked == {"send", "closechan", "setclosed", "unlock"}

PCType == Locked \cup
  {"idle", "push", "close", "go", "recv", "scan", "wait", "done", "panicked"}

TypeOK ==
  /\ len \in 0 .. Cap
  /\ chanClosed \in BOOLEAN
  /\ closed \in BOOLEAN
  /\ mutex \in Procs \cup {NoProc}
  /\ pc \in [Procs -> PCType]

Init ==
  /\ len = 0
  /\ chanClosed = FALSE
  /\ closed = FALSE
  /\ mutex = NoProc
  /\ pc = [p \in Procs |-> IF p = Loop THEN "push" ELSE "idle"]

Goto(p, l) == pc' = [pc EXCEPT ![p] = l]

-----------------------------------------------------------------------------
(* Push and Close *)

LockBug(p) == mutex' = p

Lock(p) ==
  /\ mutex = NoProc
  /\ mutex' = p

\* Push and Close take the mutex and read queue.closed ...
Enter(p) ==
  /\ pc[p] \in {"push", "close"}
  /\ Lock(p)
  /\ Goto(p, IF closed THEN "unlock" ELSE IF pc[p] = "push" THEN "send" ELSE "closechan")
  /\ UNCHANGED <<len, chanClosed, closed>>

\* ... queue.Queue <- struct{}{} blocks while the channel is full, and panics
\* when it is closed; ...
Send(p) ==
  /\ pc[p] = "send"
  /\ len < Cap \/ chanClosed
  /\ len' = IF chanClosed THEN len ELSE len + 1
  /\ Goto(p, IF chanClosed THEN "panicked" ELSE "unlock")
  /\ UNCHANGED <<chanClosed, closed, mutex>>

\* ... close(queue.Queue) panics when the channel is closed already; ...
CloseChan(p) ==
  /\ pc[p] = "closechan"
  /\ chanClosed' = TRUE
  /\ Goto(p, IF chanClosed THEN "panicked" ELSE "setclosed")
  /\ UNCHANGED <<len, closed, mutex>>

\* Where a process goes on.  Only the loop uses the queue more than once: it
\* starts the canceller after its first Push.
AfterCall(p) ==
  IF p # Loop THEN "done"
  ELSE IF pc[Canceller] = "idle" THEN "go"
  ELSE "recv"

\* ... Close sets the flag, and both give the mutex back.
Unlock(p) ==
  /\ pc[p] \in {"setclosed", "unlock"}
  /\ closed' = IF pc[p] = "setclosed" THEN TRUE ELSE closed
  /\ mutex' = NoProc
  /\ Goto(p, AfterCall(p))
  /\ UNCHANGED <<len, chanClosed>>

-----------------------------------------------------------------------------
(* Who calls them *)

\* go func() { <-ctx.Done(); phase.EventQueue.Close() }()
StartCanceller ==
  /\ pc[Loop] = "go"
  /\ pc' = [pc EXCEPT ![Loop] = "recv", ![Canceller] = "wait"]
  /\ UNCHANGED <<len, chanClosed, closed, mutex>>

ContextDone ==
  /\ pc[Canceller] = "wait"
  /\ Goto(Canceller, "close")
  /\ UNCHANGED <<len, chanClosed, closed, mutex>>

ReceiveBug ==
  /\ pc[Loop] = "recv"
  /\ len > 0 \/ chanClosed
  /\ len' = len - 1
  /\ Goto(Loop, "scan")
  /\ UNCHANGED <<chanClosed, closed, mutex>>

\* for range phase.EventQueue.Queue
Receive ==
  /\ pc[Loop] = "recv"
  /\ len > 0
  /\ len' = len - 1
  /\ Goto(Loop, "scan")
  /\ UNCHANGED <<chanClosed, closed, mutex>>

EndOfRangeBug ==
  /\ pc[Loop] = "recv"
  /\ chanClosed
  /\ Goto(Loop, "done")
  /\ UNCHANGED <<len, chanClosed, closed, mutex>>

EndOfRange ==
  /\ pc[Loop] = "recv"
  /\ len = 0
  /\ chanClosed
  /\ Goto(Loop, "done")
  /\ UNCHANGED <<len, chanClosed, closed, mutex>>

\* Phase.Run starts goroutines, each of which pushes once its task is over ...
StartTask(g) ==
  /\ pc[Loop] = "scan"
  /\ pc[g] = "idle"
  /\ Goto(g, "push")
  /\ UNCHANGED <<len, chanClosed, closed, mutex>>

\* ... and ends, with the queue to be closed or not.
EndOfRun ==
  /\ pc[Loop] = "scan"
  /\ \E l \in {"recv", "close"} : Goto(Loop, l)
  /\ UNCHANGED <<len, chanClosed, closed, mutex>>

Call(p) == Enter(p) \/ Send(p) \/ CloseChan(p) \/ Unlock(p)

Next ==
  \/ \E p \in Procs : Call(p)
  \/ StartCanceller
  \/ ContextDone
  \/ Receive
  \/ EndOfRange
  \/ \E g \in Goroutines : StartTask(g)
  \/ EndOfRun

Spec == Init /\ [][Next]_vars

(***************************************************************************)
(* Every goroutine that can run does, the loop included; no signal has to  *)
(* arrive.  Weak fairness of Lock is enough: each goroutine pushes once,   *)
(* so that no one can take the mutex again and again.                      *)
(***************************************************************************)
FairSpec ==
  /\ Spec
  /\ \A p \in Procs : WF_vars(Call(p))
  /\ WF_vars(StartCanceller)
  /\ WF_vars(Receive)
  /\ WF_vars(EndOfRange)
  /\ WF_vars(EndOfRun)

-----------------------------------------------------------------------------
(* Properties *)

\* queue.closed is never stale when it is used: what Push or Close read of it
\* still holds when they send on the channel or close it, and neither panics.
NoPanic == \A p \in Procs : pc[p] # "panicked"

\* No one waits for room in the channel while holding the mutex.
NoBlockedSend == \A p \in Procs : pc[p] = "send" => len < Cap

\* The context's goroutine, and the loop, get the queue closed once they have
\* decided to, however many pushes are under way.
CloseCloses == \A p \in Procs : (pc[p] = "close") ~> closed

\* Every event sent is received, the channel closed or not.
EventsDrained == (len > 0) ~> (len = 0)

\* The call a process is in.  It takes effect when the process sends on the
\* channel, closes it, or finds the flag set.
CallAt(l) ==
  CASE l \in {"push", "send"}        -> "push"
    [] l \in {"close", "closechan"}  -> "close"
    [] l \in {"setclosed", "unlock"} -> "returning"
    [] l = "panicked"                -> "panicked"
    [] OTHER                         -> "none"

Chan == INSTANCE Channel WITH
  Size <- Cap, Callers <- Procs,
  events <- len, open <- ~chanClosed, calls <- [p \in Procs |-> CallAt(pc[p])]

\* Push and Close are atomic: each takes effect in one step between its
\* invocation and its return, a Push once the queue is closed does nothing, and
\* none panics, whoever else is inside Push or Close.
ImplementsChannel == Chan!Spec

-----------------------------------------------------------------------------
(* The inductive invariant *)

\* The mutex is held by the process that is inside Push or Close.
MutexInv == \A p \in Procs : pc[p] \in Locked => mutex = p

\* There is one canceller, started once, and it only closes.
StartInv ==
  /\ pc[Loop] = "go" => pc[Canceller] = "idle"
  /\ pc[Canceller] \notin {"push", "send"}

\* The flag says what the channel is, except between the two assignments.
ClosedInv ==
  /\ closed => chanClosed
  /\ chanClosed => closed \/ \E p \in Procs : pc[p] = "setclosed"
  /\ \A p \in Procs : pc[p] = "setclosed" => chanClosed
  /\ \A p \in Procs : pc[p] \in {"send", "closechan"} => ~closed

Sent == {g \in Goroutines : pc[g] \in {"unlock", "done"}}

\* The first event is received before a goroutine is started; the others are
\* those of goroutines past their send.
LenInv ==
  \/ /\ len <= Cardinality(Sent)
     /\ pc[Loop] \notin {"push", "send"}
  \/ /\ \A g \in Goroutines : pc[g] = "idle"
     /\ len <= 1
     /\ pc[Loop] \in {"push", "send", "scan"} => len = 0

IInv == TypeOK /\ MutexInv /\ StartInv /\ ClosedInv /\ LenInv /\ NoPanic
=============================================================================
