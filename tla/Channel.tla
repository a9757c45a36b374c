------------------------------ MODULE Channel ------------------------------
(***************************************************************************)
(* What the event queue promises those who use it: a bounded counter of    *)
(* events, closed at most once.  A call of Push or Close takes effect in   *)
(* one step, between its invocation and its return.  Push waits for room,  *)
(* and does nothing once the queue is closed; no event sent is lost; no    *)
(* call panics.                                                            *)
(***************************************************************************)
EXTENDS Naturals

CONSTANTS Size, Callers

VARIABLES
  events,  \* events sent and not received yet
  open,
  calls    \* the call that each caller is in

vars == <<events, open, calls>>

Ops == {"push", "close"}

Init ==
  /\ events = 0
  /\ open = TRUE
  /\ calls \in [Callers -> Ops \cup {"none"}]

Become(p, from, to) ==
  /\ calls[p] = from
  /\ calls' = [calls EXCEPT ![p] = to]

Invoke(p, op) ==
  /\ Become(p, "none", op)
  /\ UNCHANGED <<events, open>>

Push(p) ==
  /\ Become(p, "push", "returning")
  /\ open => events < Size
  /\ events' = IF open THEN events + 1 ELSE events
  /\ UNCHANGED open

Close(p) ==
  /\ Become(p, "close", "returning")
  /\ open' = FALSE
  /\ UNCHANGED events

Return(p) ==
  /\ Become(p, "returning", "none")
  /\ UNCHANGED <<events, open>>

Receive ==
  /\ events > 0
  /\ events' = events - 1
  /\ UNCHANGED <<open, calls>>

Next ==
  \/ \E p \in Callers : Push(p) \/ Close(p) \/ Return(p)
  \/ \E p \in Callers, op \in Ops : Invoke(p, op)
  \/ Receive

Spec == Init /\ [][Next]_vars
=============================================================================
