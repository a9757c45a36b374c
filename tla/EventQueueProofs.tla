-------------------------- MODULE EventQueueProofs --------------------------
(***************************************************************************)
(* Proofs that, for any set of goroutines, the event queue neither panics  *)
(* nor blocks a sender, and that Push and Close can be taken for atomic.   *)
(***************************************************************************)
EXTENDS EventQueue, FiniteSetTheorems, TLAPS

LEMMA CapNat == Cap \in Nat /\ Cap >= 1
<1>1. Cap \in Nat
  BY EventQueueAssumption, FS_CardinalityType DEF Cap
<1>2. Cap # 0
  BY EventQueueAssumption, FS_EmptySet DEF Cap
<1> QED BY <1>1, <1>2

LEMMA ProcNames ==
  /\ Loop \in Procs /\ Canceller \in Procs /\ Loop # Canceller
  /\ NoProc \notin Procs
  /\ Goroutines \subseteq Procs /\ Loop \notin Goroutines /\ Canceller \notin Goroutines
BY EventQueueAssumption DEF Procs, Loop, Canceller, NoProc

LEMMA SentFinite ==
  ASSUME NEW S \in SUBSET Goroutines
  PROVE  IsFiniteSet(S) /\ Cardinality(S) \in Nat /\ Cardinality(S) <= Cap
BY EventQueueAssumption, FS_Subset, FS_CardinalityType DEF Cap

\* A goroutine whose send is done joins Sent, which grows by one.
LEMMA SentGrows ==
  ASSUME NEW S \in SUBSET Goroutines, NEW g \in Goroutines, g \notin S
  PROVE  Cardinality(S \cup {g}) = Cardinality(S) + 1 /\ Cardinality(S) < Cap
<1>1. Cardinality(S \cup {g}) = Cardinality(S) + 1
  BY SentFinite, FS_AddElement
<1>2. Cardinality(S \cup {g}) <= Cap /\ Cardinality(S) \in Nat
  BY SentFinite
<1> QED BY <1>1, <1>2, CapNat

-----------------------------------------------------------------------------
(* The mutex makes the flag and the channel agree. *)

LEMMA MutexStep ==
  ASSUME TypeOK, MutexInv, [Next]_vars
  PROVE  MutexInv'
<1> USE DEF TypeOK, MutexInv, Locked, Goto
<1>1. ASSUME NEW p \in Procs, Enter(p)
      PROVE  MutexInv'
  BY <1>1, ProcNames DEF Enter, Lock
<1>2. ASSUME NEW p \in Procs, Send(p) \/ CloseChan(p)
      PROVE  MutexInv'
  BY <1>2 DEF Send, CloseChan
<1>3. ASSUME NEW p \in Procs, Unlock(p)
      PROVE  MutexInv'
  BY <1>3 DEF Unlock, AfterCall
<1>4. CASE StartCanceller \/ ContextDone
  BY <1>4 DEF StartCanceller, ContextDone
<1>5. CASE Receive \/ EndOfRange \/ EndOfRun
  BY <1>5 DEF Receive, EndOfRange, EndOfRun
<1>6. ASSUME NEW g \in Goroutines, StartTask(g)
      PROVE  MutexInv'
  BY <1>6 DEF StartTask
<1>7. CASE UNCHANGED vars
  BY <1>7 DEF vars
<1> QED BY <1>1, <1>2, <1>3, <1>4, <1>5, <1>6, <1>7 DEF Next, Call

LEMMA StartStep ==
  ASSUME TypeOK, StartInv, [Next]_vars
  PROVE  StartInv'
<1> USE ProcNames DEF TypeOK, StartInv, Goto
<1>1. ASSUME NEW p \in Procs, Call(p)
      PROVE  StartInv'
  BY <1>1 DEF Call, Enter, Send, CloseChan, Unlock, AfterCall
<1>2. CASE StartCanceller \/ ContextDone
  BY <1>2 DEF StartCanceller, ContextDone
<1>3. CASE Receive \/ EndOfRange \/ EndOfRun
  BY <1>3 DEF Receive, EndOfRange, EndOfRun
<1>4. ASSUME NEW g \in Goroutines, StartTask(g)
      PROVE  StartInv'
  BY <1>4 DEF StartTask
<1>5. CASE UNCHANGED vars
  BY <1>5 DEF vars
<1> QED BY <1>1, <1>2, <1>3, <1>4, <1>5 DEF Next

LEMMA ClosedStep ==
  ASSUME TypeOK, MutexInv, StartInv, ClosedInv, NoPanic, [Next]_vars
  PROVE  ClosedInv' /\ NoPanic'
<1> USE DEF TypeOK, MutexInv, ClosedInv, NoPanic, Locked, Goto
<1>1. ASSUME NEW p \in Procs, Enter(p)
      PROVE  ClosedInv' /\ NoPanic'
  BY <1>1, ProcNames DEF Enter, Lock
\* Whoever is about to send or to close holds the mutex and has found the flag
\* unset; no one else can be between close(queue.Queue) and closed = true.
<1>2. ASSUME NEW p \in Procs, Send(p) \/ CloseChan(p)
      PROVE  ClosedInv' /\ NoPanic'
  <2>1. \A q \in Procs \ {p} : pc[q] \notin Locked
    BY <1>2 DEF Send, CloseChan
  <2>2. ~closed /\ ~chanClosed
    BY <1>2, <2>1 DEF Send, CloseChan
  <2>3. CASE Send(p)
    BY <2>1, <2>2, <2>3 DEF Send
  <2>4. CASE CloseChan(p)
    <3>1. pc'[p] = "setclosed" /\ ~closed'
      BY <2>1, <2>4 DEF CloseChan
    <3> QED BY <2>1, <2>2, <2>4, <3>1 DEF CloseChan
  <2> QED BY <1>2, <2>3, <2>4
<1>3. ASSUME NEW p \in Procs, Unlock(p)
      PROVE  ClosedInv' /\ NoPanic'
  <2>1. \A q \in Procs \ {p} : pc[q] \notin Locked
    BY <1>3 DEF Unlock
  <2>2. \A q \in Procs : pc'[q] \notin {"send", "closechan", "panicked"}
    BY <1>3, <2>1 DEF Unlock, AfterCall
  <2>3. CASE pc[p] = "setclosed"
    <3>1. chanClosed' /\ closed'
      BY <1>3, <2>3 DEF Unlock
    <3> QED BY <2>2, <3>1
  <2>4. CASE pc[p] = "unlock"
    <3>1. closed' = closed /\ chanClosed' = chanClosed
      BY <1>3, <2>4 DEF Unlock
    <3>2. chanClosed => closed
      BY <2>1, <2>4
    <3>3. \A q \in Procs : pc'[q] # "setclosed"
      BY <1>3, <2>1, <2>4 DEF Unlock, AfterCall
    <3>4. closed' => chanClosed'
      BY <3>1
    <3>5. chanClosed' => closed'
      BY <3>1, <3>2
    <3> QED BY <2>2, <3>3, <3>4, <3>5
  <2> QED BY <1>3, <2>3, <2>4 DEF Unlock
<1>4. CASE StartCanceller \/ ContextDone
  <2>1. \A q \in Procs :
          /\ pc[q] = "setclosed" => pc'[q] = "setclosed"
          /\ pc'[q] \in {"setclosed", "send", "closechan", "panicked"} => pc'[q] = pc[q]
    BY <1>4, ProcNames DEF StartInv, StartCanceller, ContextDone
  <2>2. closed' = closed /\ chanClosed' = chanClosed
    BY <1>4 DEF StartCanceller, ContextDone
  <2> QED BY <2>1, <2>2
<1>5. CASE Receive \/ EndOfRange \/ EndOfRun
  BY <1>5 DEF Receive, EndOfRange, EndOfRun
<1>6. ASSUME NEW g \in Goroutines, StartTask(g)
      PROVE  ClosedInv' /\ NoPanic'
  BY <1>6 DEF StartTask
<1>7. CASE UNCHANGED vars
  BY <1>7 DEF vars
<1> QED BY <1>1, <1>2, <1>3, <1>4, <1>5, <1>6, <1>7 DEF Next, Call

-----------------------------------------------------------------------------
(* Types, and room in the channel *)

LEMMA TypeStep ==
  ASSUME TypeOK, [Next]_vars
  PROVE  TypeOK'
<1> USE CapNat, ProcNames DEF TypeOK, PCType, Locked, Goto
<1>1. ASSUME NEW p \in Procs, Enter(p)
      PROVE  TypeOK'
  BY <1>1 DEF Enter, Lock
<1>2. ASSUME NEW p \in Procs, Send(p) \/ CloseChan(p)
      PROVE  TypeOK'
  <2>1. CASE Send(p)
    <3>1. len' \in 0 .. Cap
      BY <2>1 DEF Send
    <3>2. pc' \in [Procs -> PCType]
      BY <2>1 DEF Send
    <3> QED BY <2>1, <3>1, <3>2 DEF Send
  <2>2. CASE CloseChan(p)
    BY <2>2 DEF CloseChan
  <2> QED BY <1>2, <2>1, <2>2
<1>3. ASSUME NEW p \in Procs, Unlock(p)
      PROVE  TypeOK'
  BY <1>3 DEF Unlock, AfterCall
<1>4. CASE StartCanceller \/ ContextDone
  BY <1>4 DEF StartCanceller, ContextDone
<1>5. CASE Receive
  <2>1. len' \in 0 .. Cap
    BY <1>5 DEF Receive
  <2> QED BY <1>5, <2>1 DEF Receive
<1>8. CASE EndOfRange \/ EndOfRun
  BY <1>8 DEF EndOfRange, EndOfRun
<1>6. ASSUME NEW g \in Goroutines, StartTask(g)
      PROVE  TypeOK'
  BY <1>6 DEF StartTask
<1>7. CASE UNCHANGED vars
  BY <1>7 DEF vars
<1> QED BY <1>1, <1>2, <1>3, <1>4, <1>5, <1>6, <1>7, <1>8 DEF Next, Call

\* No goroutine ever leaves Sent.
LEMMA SentMonotone ==
  ASSUME TypeOK, [Next]_vars
  PROVE  Sent \subseteq Sent'
<1> SUFFICES ASSUME NEW g \in Goroutines, pc[g] \in {"unlock", "done"}
             PROVE  pc'[g] \in {"unlock", "done"}
  BY DEF Sent
<1> USE ProcNames DEF TypeOK, Goto
<1>1. ASSUME NEW p \in Procs, Call(p)
      PROVE  pc'[g] \in {"unlock", "done"}
  BY <1>1 DEF Call, Enter, Send, CloseChan, Unlock, AfterCall
<1>2. CASE StartCanceller \/ ContextDone \/ Receive \/ EndOfRange \/ EndOfRun
  BY <1>2 DEF StartCanceller, ContextDone, Receive, EndOfRange, EndOfRun
<1>3. ASSUME NEW h \in Goroutines, StartTask(h)
      PROVE  pc'[g] \in {"unlock", "done"}
  BY <1>3 DEF StartTask
<1>4. CASE UNCHANGED vars
  BY <1>4 DEF vars
<1> QED BY <1>1, <1>2, <1>3, <1>4 DEF Next

LEMMA LenStep ==
  ASSUME TypeOK, StartInv, LenInv, [Next]_vars
  PROVE  LenInv'
<1> USE ProcNames DEF TypeOK, Goto
<1>0. Cardinality(Sent) \in Nat /\ Cardinality(Sent') \in Nat
      /\ Cardinality(Sent) <= Cardinality(Sent')
  BY SentFinite, SentMonotone, FS_Subset DEF Sent
\* The events that D1 accounts for, and the first one, before any goroutine.
<1> DEFINE D1 == len <= Cardinality(Sent) /\ pc[Loop] \notin {"push", "send"}
           D2 == /\ \A g \in Goroutines : pc[g] = "idle"
                 /\ len <= 1
                 /\ pc[Loop] \in {"push", "send", "scan"} => len = 0
<1>1. ASSUME NEW g \in Goroutines, Send(g)
      PROVE  D1'
  <2>1. D1
    BY <1>1 DEF Send, LenInv
  <2>2. CASE chanClosed
    BY <1>0, <1>1, <2>1, <2>2 DEF Send
  <2>3. CASE ~chanClosed
    <3>1. g \notin Sent /\ Sent' = Sent \cup {g}
      BY <1>1, <2>3 DEF Send, Sent
    <3>2. Cardinality(Sent') = Cardinality(Sent) + 1
      BY <3>1, SentGrows DEF Sent
    <3> QED BY <1>0, <1>1, <2>1, <2>3, <3>2 DEF Send
  <2> QED BY <2>2, <2>3
<1>2. ASSUME NEW g \in Goroutines, Enter(g) \/ CloseChan(g) \/ Unlock(g)
      PROVE  D1'
  <2>1. D1
    BY <1>2 DEF Enter, CloseChan, Unlock, LenInv
  <2>2. UNCHANGED len /\ pc'[Loop] = pc[Loop]
    BY <1>2 DEF Enter, CloseChan, Unlock
  <2> QED BY <1>0, <2>1, <2>2
<1>3. ASSUME Call(Loop)
      PROVE  D1' \/ D2'
  <2>1. \A g \in Goroutines : pc'[g] = pc[g]
    BY <1>3 DEF Call, Enter, Send, CloseChan, Unlock
  <2>2. CASE Send(Loop)
    <3>1. D2
      BY <2>2 DEF Send, LenInv
    <3>2. len' <= 1 /\ pc'[Loop] \notin {"push", "send", "scan"}
      BY <2>2, <3>1 DEF Send
    <3> QED BY <2>1, <3>1, <3>2
  <2>3. CASE Enter(Loop) \/ CloseChan(Loop) \/ Unlock(Loop)
    <3>1. UNCHANGED len
      BY <2>3 DEF Enter, CloseChan, Unlock
    <3>2. pc'[Loop] \notin {"push", "scan"}
          /\ (pc'[Loop] = "send" => pc[Loop] = "push")
      BY <2>3 DEF Enter, CloseChan, Unlock, AfterCall
    <3> QED BY <1>0, <2>1, <3>1, <3>2 DEF LenInv
  <2> QED BY <1>3, <2>2, <2>3 DEF Call
<1>4. ASSUME Call(Canceller) \/ ContextDone \/ StartCanceller
      PROVE  D1' \/ D2'
  <2>1. UNCHANGED len
    BY <1>4 DEF Call, Enter, Send, CloseChan, Unlock, ContextDone, StartCanceller, StartInv
  <2>2. \A g \in Goroutines : pc'[g] = pc[g]
    BY <1>4 DEF Call, Enter, Send, CloseChan, Unlock, ContextDone, StartCanceller
  <2>3. pc'[Loop] = pc[Loop] \/ pc'[Loop] = "recv"
    BY <1>4 DEF Call, Enter, Send, CloseChan, Unlock, ContextDone, StartCanceller
  <2> QED BY <1>0, <2>1, <2>2, <2>3 DEF LenInv
<1>5. CASE Receive
  BY <1>0, <1>5 DEF Receive, LenInv
<1>6. CASE EndOfRange \/ EndOfRun
  <2>1. UNCHANGED len /\ pc'[Loop] \in {"done", "recv", "close"}
    BY <1>6 DEF EndOfRange, EndOfRun
  <2>2. \A g \in Goroutines : pc'[g] = pc[g]
    BY <1>6 DEF EndOfRange, EndOfRun
  <2> QED BY <1>0, <2>1, <2>2 DEF LenInv
<1>7. ASSUME NEW g \in Goroutines, StartTask(g)
      PROVE  D1'
  BY <1>0, <1>7 DEF StartTask, LenInv
<1>8. CASE UNCHANGED vars
  BY <1>8 DEF vars, LenInv, Sent
<1> QED
  BY <1>1, <1>2, <1>3, <1>4, <1>5, <1>6, <1>7, <1>8 DEF Next, Call, LenInv, Procs

-----------------------------------------------------------------------------
(* The theorems *)

LEMMA Initial ==
  ASSUME Init
  PROVE  IInv
<1>1. TypeOK
  <2>1. len \in 0 .. Cap
    BY CapNat DEF Init
  <2>2. pc \in [Procs -> PCType]
    BY DEF Init, PCType
  <2> QED BY <2>1, <2>2 DEF Init, TypeOK
<1>2. MutexInv /\ StartInv /\ ClosedInv /\ NoPanic
  BY ProcNames DEF Init, MutexInv, StartInv, ClosedInv, NoPanic, Locked
<1>3. LenInv
  BY ProcNames DEF Init, LenInv
<1> QED BY <1>1, <1>2, <1>3 DEF IInv

\* IInv holds of every reachable state.
THEOREM Invariance == Spec => []IInv
<1>1. Init => IInv
  BY Initial
<1>2. IInv /\ [Next]_vars => IInv'
  BY TypeStep, MutexStep, StartStep, ClosedStep, LenStep DEF IInv
<1> QED BY <1>1, <1>2, PTL DEF Spec

\* Every variable keeps its type; the channel never holds more than its places.
THEOREM TypeOKHolds == Spec => []TypeOK
<1>1. IInv => TypeOK
  BY DEF IInv
<1> QED BY <1>1, Invariance, PTL

\* Neither Push nor Close panics.
THEOREM NoPanicHolds == Spec => []NoPanic
<1>1. IInv => NoPanic
  BY DEF IInv
<1> QED BY <1>1, Invariance, PTL

\* A channel with one place per task has one left for whoever is to send.
THEOREM NoBlockedSendHolds == Spec => []NoBlockedSend
<1>1. ASSUME IInv
      PROVE  NoBlockedSend
  <2> SUFFICES ASSUME NEW p \in Procs, pc[p] = "send"
               PROVE  len < Cap
    BY DEF NoBlockedSend
  <2>1. CASE p \in Goroutines
    <3>1. len <= Cardinality(Sent)
      BY <1>1, <2>1 DEF IInv, LenInv
    <3>2. Cardinality(Sent) \in Nat /\ Cardinality(Sent) < Cap
      BY <2>1, SentFinite, SentGrows DEF Sent
    <3> QED BY <1>1, <3>1, <3>2, CapNat DEF IInv, TypeOK
  <2>2. CASE p = Loop
    BY <1>1, <2>2, CapNat DEF IInv, LenInv
  <2>3. p # Canceller
    BY <1>1 DEF IInv, StartInv
  <2> QED BY <2>1, <2>2, <2>3 DEF Procs
<1> QED BY <1>1, Invariance, PTL

-----------------------------------------------------------------------------
(* Push and Close are atomic *)

Calls == [p \in Procs |-> CallAt(pc[p])]

\* A process that moves from one place to another moves its call, and no other.
LEMMA CallsMove ==
  ASSUME TypeOK, NEW p \in Procs, NEW l, Goto(p, l)
  PROVE  /\ Calls[p] = CallAt(pc[p])
         /\ Calls' = [Calls EXCEPT ![p] = CallAt(l)]
         /\ CallAt(l) = CallAt(pc[p]) => Calls' = Calls
<1>1. \A q \in Procs : pc'[q] = IF q = p THEN l ELSE pc[q]
  BY DEF TypeOK, Goto
<1>2. Calls' = [q \in Procs |-> CallAt(pc'[q])]
  BY DEF Calls
<1>3. Calls' = [q \in Procs |-> IF q = p THEN CallAt(l) ELSE CallAt(pc[q])]
  BY <1>1, <1>2, Zenon
<1>4. Calls = [q \in Procs |-> CallAt(pc[q])]
  BY DEF Calls
<1> HIDE DEF Calls
<1> QED BY <1>3, <1>4

LEMMA CallNames ==
  /\ \A l \in {"push", "send"} : CallAt(l) = "push"
  /\ \A l \in {"close", "closechan"} : CallAt(l) = "close"
  /\ \A l \in {"setclosed", "unlock"} : CallAt(l) = "returning"
  /\ \A l \in {"idle", "go", "recv", "scan", "wait", "done"} : CallAt(l) = "none"
BY DEF CallAt

\* What Push and Close do from inside, one step at a time, is a step of the
\* abstract call or none.  A process that is past the flag has it to itself.
LEMMA CallsImplement ==
  ASSUME IInv, NEW p \in Procs, Call(p)
  PROVE  [Chan!Next]_(Chan!vars)
<1> USE DEF Chan!Next, Chan!Become
<1>0. TypeOK /\ ClosedInv
  BY DEF IInv
<1>1. CASE Enter(p)
  <2>1. CASE closed
    <3>1. Goto(p, "unlock") /\ UNCHANGED <<len, chanClosed>> /\ chanClosed
      BY <1>0, <1>1, <2>1 DEF Enter, ClosedInv
    <3>2. Calls' = [Calls EXCEPT ![p] = "returning"]
      BY <1>0, <3>1, CallsMove, CallNames
    <3>3. CASE pc[p] = "push"
      <4>1. Calls[p] = "push"
        BY <1>0, <3>1, <3>3, CallsMove, CallNames
      <4>2. Chan!Push(p)
        BY <3>1, <3>2, <4>1 DEF Chan!Push, Calls
      <4> QED BY <4>2
    <3>4. CASE pc[p] = "close"
      <4>1. Calls[p] = "close"
        BY <1>0, <3>1, <3>4, CallsMove, CallNames
      <4>2. Chan!Close(p)
        BY <3>1, <3>2, <4>1 DEF Chan!Close, Calls
      <4> QED BY <4>2
    <3> QED BY <1>1, <3>3, <3>4 DEF Enter
  <2>2. CASE ~closed
    <3>1. PICK l \in {"send", "closechan"} :
            Goto(p, l) /\ CallAt(l) = CallAt(pc[p]) /\ UNCHANGED <<len, chanClosed>>
      BY <1>1, <2>2, CallNames DEF Enter
    <3>2. Calls' = Calls
      BY <1>0, <3>1, CallsMove
    <3> QED BY <3>1, <3>2 DEF Chan!vars, Calls
  <2> QED BY <2>1, <2>2
<1>2. CASE Send(p)
  <2>1. ~chanClosed
    BY <1>0, <1>2 DEF Send, IInv, TypeOK, MutexInv, ClosedInv, Locked
  <2>2. Goto(p, "unlock") /\ pc[p] = "send"
    BY <1>2, <2>1 DEF Send
  <2>3. Calls[p] = "push" /\ Calls' = [Calls EXCEPT ![p] = "returning"]
    BY <1>0, <2>2, CallsMove, CallNames
  <2>4. Chan!Push(p)
    BY <1>2, <2>1, <2>3 DEF Send, Chan!Push, Calls
  <2> QED BY <2>4
<1>3. CASE CloseChan(p)
  <2>1. ~chanClosed
    BY <1>0, <1>3 DEF CloseChan, IInv, TypeOK, MutexInv, ClosedInv, Locked
  <2>2. Goto(p, "setclosed") /\ pc[p] = "closechan"
    BY <1>3, <2>1 DEF CloseChan
  <2>3. Calls[p] = "close" /\ Calls' = [Calls EXCEPT ![p] = "returning"]
    BY <1>0, <2>2, CallsMove, CallNames
  <2>4. Chan!Close(p)
    BY <1>3, <2>3 DEF CloseChan, Chan!Close, Calls
  <2> QED BY <2>4
<1>4. CASE Unlock(p)
  <2>1. Goto(p, AfterCall(p)) /\ pc[p] \in {"setclosed", "unlock"}
    BY <1>4 DEF Unlock
  <2>2. AfterCall(p) \in {"done", "go", "recv"}
    BY DEF AfterCall
  <2>3. Calls[p] = "returning" /\ Calls' = [Calls EXCEPT ![p] = "none"]
    BY <1>0, <2>1, <2>2, CallsMove, CallNames
  <2>4. Chan!Return(p)
    BY <1>4, <2>3 DEF Unlock, Chan!Return, Calls
  <2> QED BY <2>4
<1> QED BY <1>1, <1>2, <1>3, <1>4 DEF Call

LEMMA CallersImplement ==
  ASSUME TypeOK, StartInv, [Next]_vars, \A p \in Procs : ~Call(p)
  PROVE  [Chan!Next]_(Chan!vars)
<1> USE ProcNames DEF Chan!Next, Chan!Become, Chan!Ops
<1>1. ASSUME NEW p \in Procs, NEW l \in {"push", "close"}, Goto(p, l),
             CallAt(pc[p]) = "none", UNCHANGED <<len, chanClosed>>
      PROVE  Chan!Next
  <2>1. Calls[p] = "none" /\ Calls' = [Calls EXCEPT ![p] = l]
    BY <1>1, CallsMove, CallNames
  <2>2. Chan!Invoke(p, l)
    BY <1>1, <2>1 DEF Chan!Invoke, Calls
  <2> QED BY <2>2
<1>2. ASSUME NEW p \in Procs, NEW l, Goto(p, l), CallAt(l) = CallAt(pc[p])
      PROVE  Calls' = Calls
  BY <1>2, CallsMove
<1>3. CASE StartCanceller
  <2>1. \A q \in Procs : CallAt(pc'[q]) = CallAt(pc[q])
    <3>1. \A q \in Procs :
            \/ pc'[q] = pc[q]
            \/ q = Loop /\ pc[q] = "go" /\ pc'[q] = "recv"
            \/ q = Canceller /\ pc[q] = "idle" /\ pc'[q] = "wait"
      BY <1>3 DEF StartCanceller, StartInv, TypeOK
    <3> QED BY <3>1, CallNames
  <2>2. Calls' = Calls
    BY <2>1 DEF Calls
  <2> QED BY <1>3, <2>2 DEF StartCanceller, Chan!vars, Calls
<1>4. CASE ContextDone
  BY <1>1, <1>4, CallNames DEF ContextDone
<1>5. CASE Receive
  <2>1. Calls' = Calls
    BY <1>2, <1>5, CallNames DEF Receive
  <2> QED BY <1>5, <2>1 DEF Receive, Chan!Receive, Calls
<1>6. CASE EndOfRange
  <2>1. Calls' = Calls
    BY <1>2, <1>6, CallNames DEF EndOfRange
  <2> QED BY <1>6, <2>1 DEF EndOfRange, Chan!vars, Calls
<1>7. ASSUME NEW g \in Goroutines, StartTask(g)
      PROVE  Chan!Next
  BY <1>1, <1>7, CallNames DEF StartTask
<1>8. CASE EndOfRun
  <2>1. CASE Goto(Loop, "close")
    BY <1>1, <1>8, <2>1, CallNames DEF EndOfRun
  <2>2. CASE Goto(Loop, "recv")
    <3>1. Calls' = Calls
      BY <1>2, <1>8, <2>2, CallNames DEF EndOfRun
    <3> QED BY <1>8, <3>1 DEF EndOfRun, Chan!vars, Calls
  <2> QED BY <1>8, <2>1, <2>2 DEF EndOfRun
<1>9. CASE UNCHANGED vars
  BY <1>9 DEF vars, Chan!vars
<1> QED
  BY <1>3, <1>4, <1>5, <1>6, <1>7, <1>8, <1>9 DEF Next

\* The event queue implements one whose Push and Close take effect in a single
\* step and never panic, which Phase takes it for.
THEOREM ImplementsChannelHolds == Spec => ImplementsChannel
<1>1. Init => Chan!Init
  <2> SUFFICES ASSUME Init
               PROVE  Chan!Init
    OBVIOUS
  <2>1. \A p \in Procs : CallAt(pc[p]) \in {"push", "none"}
    BY CallNames DEF Init
  <2> QED BY <2>1 DEF Init, Chan!Init, Chan!Ops
<1>2. IInv /\ [Next]_vars => [Chan!Next]_(Chan!vars)
  BY CallsImplement, CallersImplement DEF IInv
<1> QED BY <1>1, <1>2, Invariance, PTL DEF Spec, ImplementsChannel, Chan!Spec
=============================================================================
