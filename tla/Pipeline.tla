------------------------------ MODULE Pipeline ------------------------------
(***************************************************************************)
(* What a build promises about its phases: they run one after the other in *)
(* the order they are listed, each at most once, and a build whose         *)
(* condition is the default one is no success after a phase has failed.    *)
(***************************************************************************)
EXTENDS Naturals

CONSTANT Length  \* number of phases

VARIABLES
  strict,   \* the build's fail condition is the default one; fixed
  phase,    \* "pending", "running" or the status the phase got
  outcome   \* "none" while the build runs

vars == <<strict, phase, outcome>>

Steps == 1 .. Length

Over == {"skipped", "failed", "succeeded"}

Init ==
  /\ strict \in BOOLEAN
  /\ phase = [p \in Steps |-> "pending"]
  /\ outcome = "none"

Start(p) ==
  /\ outcome = "none"
  /\ phase[p] = "pending"
  /\ \A q \in Steps : q < p => phase[q] \in Over
  /\ phase' = [phase EXCEPT ![p] = "running"]
  /\ UNCHANGED <<strict, outcome>>

Settle(p) ==
  /\ outcome = "none"
  /\ phase[p] = "running"
  /\ \E s \in Over : phase' = [phase EXCEPT ![p] = s]
  /\ UNCHANGED <<strict, outcome>>

\* The last phase settles and an error of its own stops the build.
SettleAndStop(p) ==
  /\ outcome = "none"
  /\ phase[p] = "running"
  /\ \E s \in Over : phase' = [phase EXCEPT ![p] = s]
  /\ outcome' = "error"
  /\ UNCHANGED strict

Succeed ==
  /\ outcome = "none"
  /\ \A p \in Steps : phase[p] # "running" /\ (strict => phase[p] # "failed")
  /\ outcome' = "ok"
  /\ UNCHANGED <<strict, phase>>

\* The build fails, or the process dies.
Fail ==
  /\ outcome = "none"
  /\ outcome' \in {"error", "died"}
  /\ UNCHANGED <<strict, phase>>

Next ==
  \/ \E p \in Steps : Start(p) \/ Settle(p) \/ SettleAndStop(p)
  \/ Succeed
  \/ Fail

Spec == Init /\ [][Next]_vars
=============================================================================
